---- MODULE Spec2Model ----
(***************************************************************************)
(* Model of the pure utilities of the developer toolbox page: the colour   *)
(* functions normalizeHex, hexToRgb, rgbToHex, rgbToHsl, hslToRgb and      *)
(* generatePalette, and the Markdown renderer escapeHtml,                  *)
(* applyInlineFormatting and renderMarkdown.                               *)
(*                                                                         *)
(* Each specification below draws the argument of a call, or of a chain of *)
(* calls, from a bounded set of inputs and its actions make the calls,     *)
(* keeping every result in a variable.  renderMarkdown is followed line by *)
(* line: one action for each branch of the callback of lines.forEach.      *)
(* The panels UuidGenerator and ColorPalettePicker are followed handler by *)
(* handler and effect by effect, from the mount with nothing stored.       *)
(*                                                                         *)
(* Strings are sequences of one-character strings.  Fractions that the     *)
(* source holds in doubles are held as exact rationals (a numerator over   *)
(* a fixed denominator); MathRound is the one place where the double and   *)
(* the rational can part, and the only source of nondeterminism.           *)
(***************************************************************************)
EXTENDS Integers, Sequences, FiniteSets

VARIABLES
    pc,          \* position of the call sequence under way
    hexIn,       \* string argument of normalizeHex / generatePalette
    hexOut,      \* string returned by normalizeHex / rgbToHex
    rgb,         \* an RgbColor: argument or intermediate result
    hsl,         \* an HslColor: argument or intermediate result
    rgbBack,     \* RgbColor obtained at the end of a round trip
    hslBack,     \* HslColor obtained at the end of a round trip
    palette,     \* result of generatePalette
    tie,         \* how Math.round resolves the exact ties of generatePalette,
                 \* for each argument: a function of the operands alone
    markdown,    \* string argument of renderMarkdown
    lines,       \* renderMarkdown: the lines of the argument
    scanned,     \* renderMarkdown: number of lines forEach has visited
    htmlParts,   \* renderMarkdown: the blocks emitted so far
    paragraph,   \* renderMarkdown: lines of the open paragraph
    listItems,   \* renderMarkdown: items of the open list
    inCodeBlock, \* renderMarkdown: inside a fenced code block
    codeBuffer,  \* renderMarkdown: lines of the open code block
    html,        \* string returned by renderMarkdown
    calls,       \* the calls that returned before the one under way
    history,     \* UuidGenerator: the stored UUID history
    current,     \* UuidGenerator: the UUID on display
    favorites,   \* ColorPalettePicker: the stored favorites
    baseColor,   \* ColorPalettePicker: the base colour of the palette
    hexInput     \* ColorPalettePicker: the text of the hex field

renderVars ==
    <<markdown, lines, scanned, htmlParts, paragraph, listItems, inCodeBlock,
      codeBuffer, html>>

panelVars == <<history, current, favorites, baseColor, hexInput>>

vars ==
    <<pc, hexIn, hexOut, rgb, hsl, rgbBack, hslBack, palette, tie, calls,
      renderVars, panelVars>>

----------------------------------------------------------------------------
(* Bounds of the checked input spaces *)

\* longest run of hex-like characters between the padding of a framed input
MaxBody == 6
\* most whitespace characters put before, and after, a framed input
MaxPad == 1
\* most '#' characters put in front of a framed input
MaxHash == 2
\* longest input drawn freely from the whole alphabet
MaxFree == 4

----------------------------------------------------------------------------
(* Characters and the String methods the source calls *)

WhiteSpace == {" ", "\t", "\n", "\r"}

LowerHexDigits ==
    <<"0", "1", "2", "3", "4", "5", "6", "7", "8", "9", "a", "b", "c", "d", "e", "f">>

UpperHexDigits ==
    <<"0", "1", "2", "3", "4", "5", "6", "7", "8", "9", "A", "B", "C", "D", "E", "F">>

\* the character class [0-9a-fA-F]
HexClass == {LowerHexDigits[i] : i \in 1..16} \cup {UpperHexDigits[i] : i \in 1..16}

LowerChar(c) ==
    CASE c = "A" -> "a" [] c = "B" -> "b" [] c = "C" -> "c" [] c = "D" -> "d"
      [] c = "E" -> "e" [] c = "F" -> "f" [] c = "G" -> "g" [] c = "Z" -> "z"
      [] OTHER -> c

UpperChar(c) ==
    CASE c = "a" -> "A" [] c = "b" -> "B" [] c = "c" -> "C" [] c = "d" -> "D"
      [] c = "e" -> "E" [] c = "f" -> "F" [] c = "g" -> "G" [] c = "z" -> "Z"
      [] OTHER -> c

toLowerCase(s) == [i \in 1..Len(s) |-> LowerChar(s[i])]

toUpperCaseIdentity(s) == s

toUpperCase(s) == [i \in 1..Len(s) |-> UpperChar(s[i])]

RECURSIVE trimStart(_)
trimStart(s) ==
    IF s # <<>> /\ Head(s) \in WhiteSpace THEN trimStart(Tail(s)) ELSE s

RECURSIVE trimEnd(_)
trimEnd(s) ==
    IF s # <<>> /\ s[Len(s)] \in WhiteSpace
    THEN trimEnd(SubSeq(s, 1, Len(s) - 1))
    ELSE s

trim(s) == trimEnd(trimStart(s))

\* s.replace(/^#/, ""): at most one '#', and only at the very start
stripLeadingHash(s) == IF s # <<>> /\ Head(s) = "#" THEN Tail(s) ELSE s

\* s.replace("#", ""): the first '#' wherever it stands
RECURSIVE removeFirstHash(_)
removeFirstHash(s) ==
    IF s = <<>> THEN s
    ELSE IF Head(s) = "#" THEN Tail(s)
    ELSE <<Head(s)>> \o removeFirstHash(Tail(s))

----------------------------------------------------------------------------
(* normalizeHex *)

VALID_HEX_UNANCHORED(s) ==
    /\ Len(s) >= 6
    /\ \E k \in 0..(Len(s) - 6) : \A i \in 1..6 : s[k + i] \in HexClass

\* /^[0-9a-fA-F]{6}$/
VALID_HEX_REGEX(s) == Len(s) = 6 /\ \A i \in 1..6 : s[i] \in HexClass

\* /^[0-9a-fA-F]{3}$/
SHORT_HEX_REGEX(s) == Len(s) = 3 /\ \A i \in 1..3 : s[i] \in HexClass

FALLBACK_HEX == <<"#", "5", "2", "9", "D", "F", "F">>

expandShortRepeated(s) == s \o s

\* split("").map((char) => char + char).join("")
expandShort(s) == [i \in 1..(2 * Len(s)) |-> s[(i + 1) \div 2]]

normalizeHexUnchecked(hex) ==
    LET trimmed == toLowerCase(stripLeadingHash(trim(hex)))
    IN  IF SHORT_HEX_REGEX(trimmed)
        THEN toUpperCase(<<"#">> \o expandShort(trimmed))
        ELSE toUpperCase(<<"#">> \o trimmed)

normalizeHex(hex) ==
    LET trimmed == toLowerCase(stripLeadingHash(trim(hex)))
    IN  IF VALID_HEX_REGEX(trimmed)
        THEN toUpperCase(<<"#">> \o trimmed)
        ELSE IF SHORT_HEX_REGEX(trimmed)
             THEN toUpperCase(<<"#">> \o expandShort(trimmed))
             ELSE FALLBACK_HEX

----------------------------------------------------------------------------
(* Inputs of the normalizeHex checks *)

HexishChars == {"0", "a", "F", "g"}
FreeChars == {" ", "#", "0", "a", "F", "g"}

Strings(alphabet, n) == UNION {[1..k -> alphabet] : k \in 0..n}

Repeat(c, n) == [i \in 1..n |-> c]

\* `lead` whitespace characters, `hashes` '#' characters, a body and `trail`
\* whitespace characters
Framed(lead, hashes, body, trail) ==
    Repeat(" ", lead) \o Repeat("#", hashes) \o body \o Repeat(" ", trail)

\* x is an input of the normalizeHex checks: a framed run of hex-like
\* characters, or any short string over the whole alphabet
IsHexInput(x) ==
    \/ \E lead \in 0..MaxPad, hashes \in 0..MaxHash, trail \in 0..MaxPad :
          \E body \in Strings(HexishChars, MaxBody) :
              x = Framed(lead, hashes, body, trail)
    \/ x \in Strings(FreeChars, MaxFree)

NoString == <<>>
NoRgb == [r |-> 0, g |-> 0, b |-> 0]
NoHsl == [h |-> 0, s |-> 0, l |-> 0]
NoPalette == [shades |-> <<>>, complementary |-> <<>>]
NoTie == <<>>

\* no call of renderMarkdown is under way or has returned
NoRender ==
    /\ markdown = NoString /\ lines = <<>> /\ scanned = 0
    /\ htmlParts = <<>> /\ paragraph = <<>> /\ listItems = <<>>
    /\ inCodeBlock = FALSE /\ codeBuffer = <<>>
    /\ html = NoString

\* neither panel is mounted
NoPanel ==
    /\ history = <<>> /\ current = NoString
    /\ favorites = <<>> /\ baseColor = NoString /\ hexInput = NoString

----------------------------------------------------------------------------
(* One call of normalizeHex on an arbitrary input *)

InitNormalizeHex ==
    /\ pc = "normalizeHex"
    /\ IsHexInput(hexIn)
    /\ hexOut = NoString
    /\ rgb = NoRgb /\ hsl = NoHsl /\ rgbBack = NoRgb /\ hslBack = NoHsl
    /\ palette = NoPalette
    /\ tie = NoTie /\ calls = <<>> /\ NoRender /\ NoPanel

CallNormalizeHex ==
    /\ pc = "normalizeHex"
    /\ hexOut' = normalizeHex(hexIn)
    /\ pc' = "normalized"
    /\ UNCHANGED <<hexIn, rgb, hsl, rgbBack, hslBack, palette>>
    /\ UNCHANGED <<tie, calls, renderVars, panelVars>>

NextNormalizeHex == CallNormalizeHex

SpecNormalizeHex == InitNormalizeHex /\ [][NextNormalizeHex]_vars

----------------------------------------------------------------------------
(* Properties of normalizeHex *)

\* x is `lead` whitespace characters, `hash` '#' characters (0 or 1), n
\* hexadecimal digits and then whitespace characters only, in that order
IsHexForm(x, lead, hash, n) ==
    /\ Len(x) >= lead + hash + n
    /\ \A i \in 1..lead : x[i] \in WhiteSpace
    /\ hash = 1 => x[lead + 1] = "#"
    /\ \A i \in 1..n : x[lead + hash + i] \in HexClass
    /\ \A i \in (lead + hash + n + 1)..Len(x) : x[i] \in WhiteSpace

HasHexForm(x, n) ==
    \E lead \in 0..Len(x), hash \in {0, 1} : IsHexForm(x, lead, hash, n)

DigitValue(c) ==
    CHOOSE v \in 0..15 : LowerHexDigits[v + 1] = c \/ UpperHexDigits[v + 1] = c

UpperDigit(c) == UpperHexDigits[DigitValue(c) + 1]

IsUpperHexColor(x) ==
    /\ Len(x) = 7
    /\ x[1] = "#"
    /\ \A i \in 2..7 : \E v \in 1..16 : x[i] = UpperHexDigits[v]

\* C1: an input that is, between optional whitespace and after one optional
\* '#', exactly 6 hexadecimal digits in any letter case is returned as '#'
\* followed by the same 6 digits in upper case.
C1_SixDigits ==
    pc = "normalized" =>
        \A lead \in 0..Len(hexIn), hash \in {0, 1} :
            IsHexForm(hexIn, lead, hash, 6) =>
                /\ Len(hexOut) = 7
                /\ hexOut[1] = "#"
                /\ \A i \in 1..6 : hexOut[1 + i] = UpperDigit(hexIn[lead + hash + i])

C1_Witness ==
    /\ pc = "normalized"
    /\ IsHexForm(hexIn, 1, 1, 6) /\ Len(hexIn) = 9
    /\ \E i \in 3..8 : hexIn[i] = "a"
    /\ \E i \in 3..8 : hexIn[i] = "F"
    /\ hexOut # FALLBACK_HEX

\* C2: an input that is, between optional whitespace and after one optional
\* '#', exactly 3 hexadecimal digits d1 d2 d3 is returned as '#' followed by
\* d1 d1 d2 d2 d3 d3 in upper case.
C2_ThreeDigits ==
    pc = "normalized" =>
        \A lead \in 0..Len(hexIn), hash \in {0, 1} :
            IsHexForm(hexIn, lead, hash, 3) =>
                /\ Len(hexOut) = 7
                /\ hexOut[1] = "#"
                /\ \A i \in 1..3 :
                      /\ hexOut[2 * i] = UpperDigit(hexIn[lead + hash + i])
                      /\ hexOut[2 * i + 1] = UpperDigit(hexIn[lead + hash + i])

C2_Witness ==
    /\ pc = "normalized"
    /\ hexIn = <<"#", "F", "0", "a">>
    /\ hexOut = <<"#", "F", "F", "0", "0", "A", "A">>

\* C3: normalizeHex always returns '#' followed by 6 upper-case hexadecimal
\* digits, and returns exactly "#529DFF" for every input that has neither
\* the 3-digit nor the 6-digit form.
C3_FallbackAndShape ==
    pc = "normalized" =>
        /\ IsUpperHexColor(hexOut)
        /\ (~HasHexForm(hexIn, 3) /\ ~HasHexForm(hexIn, 6)) =>
              hexOut = <<"#", "5", "2", "9", "D", "F", "F">>

C3_Witness ==
    /\ pc = "normalized"
    /\ hexIn = <<"0", "0", "0", "0", "0">>
    /\ hexOut = <<"#", "5", "2", "9", "D", "F", "F">>

----------------------------------------------------------------------------
(* Numbers *)

Min2(a, b) == IF a < b THEN a ELSE b
Max2(a, b) == IF a > b THEN a ELSE b

clampLowerOnly(value, min, max) == Max2(value, min)

\* Math.min(Math.max(value, min), max)
clamp(value, min, max) == Min2(Max2(value, min), max)

\* JavaScript's %: the result takes the sign of the dividend
jsRemainder(a, n) == IF a >= 0 THEN a % n ELSE -((-a) % n)

\* One choice per Math.round call of a conversion, in source order.
Ties == BOOLEAN \X BOOLEAN \X BOOLEAN

MathFloor(num, den, up) == num \div den

\* Math.round(num / den) for num >= 0 and den > 0.  Math.round rounds to the
\* nearest integer and a half upwards.  The source computes the argument in
\* doubles, whose rounding error (a few units in the 16th digit) cannot move
\* it across a half unless the exact quotient is a half itself: there the
\* double may lie just under the half and Math.round then returns the lower
\* neighbour (hslToRgb({h: 330, s: 80, l: 50}) returns g = 25 for the exact
\* 25.5).  `up` says which neighbour is returned at such a tie; it is read
\* nowhere else.
MathRound(num, den, up) ==
    LET twice == 2 * num
        k == twice \div den
    IN  IF twice % den = 0 /\ k % 2 = 1
        THEN IF up THEN (k + 1) \div 2 ELSE (k - 1) \div 2
        ELSE (twice + den) \div (2 * den)

----------------------------------------------------------------------------
(* hexToRgb and rgbToHex *)

hexDigitValue(c) ==
    CHOOSE v \in 0..15 : LowerHexDigits[v + 1] = c \/ UpperHexDigits[v + 1] = c

\* parseInt(s, 16): the value of the longest prefix of hexadecimal digits.
\* Without such a prefix parseInt returns NaN, which the shifts of hexToRgb
\* read as 0.
RECURSIVE parseIntPrefix(_, _)
parseIntPrefix(s, acc) ==
    IF s = <<>> \/ Head(s) \notin HexClass
    THEN acc
    ELSE parseIntPrefix(Tail(s), 16 * acc + hexDigitValue(Head(s)))

parseInt16(s) == parseIntPrefix(s, 0)

hexToRgb(hex) ==
    LET normalized == removeFirstHash(normalizeHex(hex))
        num == parseInt16(normalized)
    IN  [r |-> (num \div 65536) % 256,   \* (num >> 16) & 255
         g |-> (num \div 256) % 256,     \* (num >> 8) & 255
         b |-> num % 256]                \* num & 255

\* n.toString(16) for an integer n >= 0
RECURSIVE toString16(_)
toString16(n) ==
    IF n < 16
    THEN <<LowerHexDigits[n + 1]>>
    ELSE toString16(n \div 16) \o <<LowerHexDigits[(n % 16) + 1]>>

\* s.padStart(2, "0")
padStart2(s) == IF Len(s) < 2 THEN Repeat("0", 2 - Len(s)) \o s ELSE s

toHexUnpadded(component) == toUpperCase(toString16(component))

\* the toHex closure of rgbToHex
toHex(component) == toUpperCase(padStart2(toString16(component)))

rgbToHex(color) == <<"#">> \o toHex(color.r) \o toHex(color.g) \o toHex(color.b)

----------------------------------------------------------------------------
(* rgbToHsl: rNorm, gNorm and bNorm are r/255, g/255 and b/255; max, min and *)
(* d below are the source's max, min and d times 255.                       *)

rgbToHsl(color, up) ==
    LET r == color.r
        g == color.g
        b == color.b
        max == Max2(r, Max2(g, b))
        min == Min2(r, Min2(g, b))
        \* l = (max + min) / 2, as a fraction of 510
        lNum == max + min
        d == max - min
        \* s = l > 0.5 ? d / (2 - max - min) : d / (max + min), as d / sDen
        sDen == IF 2 * lNum > 510 THEN 510 - max - min ELSE max + min
        \* h before "h /= 6", as a fraction of d: the first case that equals
        \* max, in the order r, g, b
        hNum == IF max = r THEN (g - b) + (IF g < b THEN 6 * d ELSE 0)
                ELSE IF max = g THEN (b - r) + 2 * d
                ELSE (r - g) + 4 * d
    IN  IF max = min
        THEN [h |-> 0, s |-> 0, l |-> MathRound(100 * lNum, 510, up[3])]
        ELSE [h |-> MathRound(360 * hNum, 6 * d, up[1]),
              s |-> MathRound(100 * d, sDen, up[2]),
              l |-> MathRound(100 * lNum, 510, up[3])]

----------------------------------------------------------------------------
(* hslToRgb: saturation and lightness are held in hundredths, p and q in    *)
(* ten-thousandths, t in 360ths; hueToRgb returns its result in 600000ths.  *)

hueToRgbNoWrap(p, q, t) ==
    IF 6 * t < 360 THEN 60 * p + (q - p) * t
    ELSE IF 2 * t < 360 THEN 60 * q
    ELSE IF 3 * t < 720 THEN 60 * p + (q - p) * (240 - t)
    ELSE 60 * p

hueToRgb(p, q, t) ==
    LET t1 == IF t < 0 THEN t + 360 ELSE t
        t2 == IF t1 > 360 THEN t1 - 360 ELSE t1
    IN  IF 6 * t2 < 360 THEN 60 * p + (q - p) * t2                \* t < 1/6
        ELSE IF 2 * t2 < 360 THEN 60 * q                          \* t < 1/2
        ELSE IF 3 * t2 < 720 THEN 60 * p + (q - p) * (240 - t2)   \* t < 2/3
        ELSE 60 * p

hslToRgbUnwrapped(color, up) ==
    LET saturation == clamp(color.s, 0, 100)
        lightness == clamp(color.l, 0, 100)
        q == IF lightness < 50
             THEN lightness * (100 + saturation)
             ELSE 100 * lightness + 100 * saturation - lightness * saturation
        p == 200 * lightness - q
        gray == MathRound(lightness * 255, 100, up[1])
    IN  IF saturation = 0
        THEN [r |-> gray, g |-> gray, b |-> gray]
        ELSE [r |-> MathRound(hueToRgb(p, q, color.h + 120) * 255, 600000, up[1]),
              g |-> MathRound(hueToRgb(p, q, color.h) * 255, 600000, up[2]),
              b |-> MathRound(hueToRgb(p, q, color.h - 120) * 255, 600000, up[3])]

hslToRgb(color, up) ==
    LET saturation == clamp(color.s, 0, 100)
        lightness == clamp(color.l, 0, 100)
        q == IF lightness < 50
             THEN lightness * (100 + saturation)
             ELSE 100 * lightness + 100 * saturation - lightness * saturation
        p == 200 * lightness - q
        hFraction == (jsRemainder(color.h, 360) + 360) % 360
        gray == MathRound(lightness * 255, 100, up[1])
    IN  IF saturation = 0
        THEN [r |-> gray, g |-> gray, b |-> gray]
        ELSE [r |-> MathRound(hueToRgb(p, q, hFraction + 120) * 255, 600000, up[1]),
              g |-> MathRound(hueToRgb(p, q, hFraction) * 255, 600000, up[2]),
              b |-> MathRound(hueToRgb(p, q, hFraction - 120) * 255, 600000, up[3])]

hslToHex(color, up) == rgbToHex(hslToRgb(color, up))

----------------------------------------------------------------------------
(* Inputs of the conversion checks *)

\* channels 0..MaxLow and 255-MaxLow..255 are all taken
MaxLow == 7
\* between them, every ChannelStride-th channel is taken
ChannelStride == 17
\* hues run over HueTurns full turns below 0 and HueTurns full turns above 359
HueTurns == 1
\* hues next to a multiple of HueStride are taken
HueStride == 30
\* saturation and lightness run from -PercentOver to 100 + PercentOver
PercentOver == 20
\* every PercentStride-th percentage is taken
PercentStride == 5

\* 13 and 40: rgbToHsl({0, 13, 40}) rounds a hue of exactly 220.5;
\* 82 and 157: channels of the fallback colour; 228 and 230: channels of a
\* colour that the integer HSL form reproduces worst.
ChannelSamples ==
    (0..MaxLow) \cup ((255 - MaxLow)..255)
        \cup {c \in 0..255 : c % ChannelStride = 0}
        \cup {13, 40, 82, 157, 228, 230}

RgbInputs == [r : ChannelSamples, g : ChannelSamples, b : ChannelSamples]

HueSamples ==
    {h \in (-360 * HueTurns)..(360 * (HueTurns + 1) - 1) :
        h % HueStride \in {0, 1, HueStride - 1}}

PercentSamples ==
    {x \in (-PercentOver)..(100 + PercentOver) :
        \/ x % PercentStride = 0
        \/ x \in {-1, 1, 49, 51, 99, 101}}

HslInputs == [h : HueSamples, s : PercentSamples, l : PercentSamples]

----------------------------------------------------------------------------
(* Conversions starting from an RGB colour: to hex and back, and to HSL and *)
(* back.                                                                    *)

InitRgb ==
    /\ pc = "rgb"
    /\ rgb \in RgbInputs
    /\ hexIn = NoString /\ hexOut = NoString
    /\ hsl = NoHsl /\ rgbBack = NoRgb /\ hslBack = NoHsl
    /\ palette = NoPalette
    /\ tie = NoTie /\ calls = <<>> /\ NoRender /\ NoPanel

RgbCallRgbToHex ==
    /\ pc = "rgb"
    /\ hexOut' = rgbToHex(rgb)
    /\ pc' = "rgb-hex"
    /\ UNCHANGED <<hexIn, rgb, hsl, rgbBack, hslBack, palette>>
    /\ UNCHANGED <<tie, calls, renderVars, panelVars>>

RgbCallHexToRgb ==
    /\ pc = "rgb-hex"
    /\ rgbBack' = hexToRgb(hexOut)
    /\ pc' = "rgb-hex-rgb"
    /\ UNCHANGED <<hexIn, hexOut, rgb, hsl, hslBack, palette>>
    /\ UNCHANGED <<tie, calls, renderVars, panelVars>>

RgbCallRgbToHsl ==
    /\ pc = "rgb"
    /\ \E up \in Ties : hsl' = rgbToHsl(rgb, up)
    /\ pc' = "rgb-hsl"
    /\ UNCHANGED <<hexIn, hexOut, rgb, rgbBack, hslBack, palette>>
    /\ UNCHANGED <<tie, calls, renderVars, panelVars>>

RgbCallHslToRgb ==
    /\ pc = "rgb-hsl"
    /\ \E up \in Ties : rgbBack' = hslToRgb(hsl, up)
    /\ pc' = "rgb-hsl-rgb"
    /\ UNCHANGED <<hexIn, hexOut, rgb, hsl, hslBack, palette>>
    /\ UNCHANGED <<tie, calls, renderVars, panelVars>>

NextRgb ==
    \/ RgbCallRgbToHex
    \/ RgbCallHexToRgb
    \/ RgbCallRgbToHsl
    \/ RgbCallHslToRgb

SpecRgb == InitRgb /\ [][NextRgb]_vars

----------------------------------------------------------------------------
(* Conversions starting from an HSL colour: to RGB and back *)

InitHsl ==
    /\ pc = "hsl"
    /\ hsl \in HslInputs
    /\ hexIn = NoString /\ hexOut = NoString
    /\ rgb = NoRgb /\ rgbBack = NoRgb /\ hslBack = NoHsl
    /\ palette = NoPalette
    /\ tie = NoTie /\ calls = <<>> /\ NoRender /\ NoPanel

HslCallHslToRgb ==
    /\ pc = "hsl"
    /\ \E up \in Ties : rgb' = hslToRgb(hsl, up)
    /\ pc' = "hsl-rgb"
    /\ UNCHANGED <<hexIn, hexOut, hsl, rgbBack, hslBack, palette>>
    /\ UNCHANGED <<tie, calls, renderVars, panelVars>>

HslCallRgbToHsl ==
    /\ pc = "hsl-rgb"
    /\ \E up \in Ties : hslBack' = rgbToHsl(rgb, up)
    /\ pc' = "hsl-rgb-hsl"
    /\ UNCHANGED <<hexIn, hexOut, rgb, hsl, rgbBack, palette>>
    /\ UNCHANGED <<tie, calls, renderVars, panelVars>>

NextHsl ==
    \/ HslCallHslToRgb
    \/ HslCallRgbToHsl

SpecHsl == InitHsl /\ [][NextHsl]_vars

----------------------------------------------------------------------------
(* Properties of the conversions *)

Abs(x) == IF x < 0 THEN -x ELSE x

IsRgbColor(c) == c.r \in 0..255 /\ c.g \in 0..255 /\ c.b \in 0..255

IsHslColor(c) == c.h \in 0..359 /\ c.s \in 0..100 /\ c.l \in 0..100

ChannelDistance(c1, c2) ==
    Max2(Abs(c1.r - c2.r), Max2(Abs(c1.g - c2.g), Abs(c1.b - c2.b)))

\* C4: hexToRgb(rgbToHex(rgb)) = rgb for every rgb with channels in 0..255,
\* each channel being written as exactly two hexadecimal digits.
C4_HexRoundTrip ==
    /\ pc \in {"rgb-hex", "rgb-hex-rgb"} => Len(hexOut) = 7
    /\ pc = "rgb-hex-rgb" => rgbBack = rgb

C4_Witness ==
    /\ pc = "rgb-hex-rgb"
    /\ rgb = [r |-> 0, g |-> 13, b |-> 255]
    /\ hexOut = <<"#", "0", "0", "0", "D", "F", "F">>
    /\ rgbBack = rgb

\* C5: rgbToHsl returns a hue in 0..359 (never 360), a saturation in 0..100
\* and a lightness in 0..100 for every rgb with channels in 0..255.
C5_HslRanges == pc = "rgb-hsl" => IsHslColor(hsl)

\* C6 as stated: for every HSL colour within the valid ranges,
\* rgbToHsl(hslToRgb(hsl)) has each of h, s and l within 1 of the original.
C6_AllWithinOne ==
    (pc = "hsl-rgb-hsl" /\ IsHslColor(hsl)) =>
        /\ Abs(hslBack.h - hsl.h) <= 1
        /\ Abs(hslBack.s - hsl.s) <= 1
        /\ Abs(hslBack.l - hsl.l) <= 1

\* C6 as amended: for every HSL colour within the valid ranges,
\* rgbToHsl(hslToRgb(hsl)) has its lightness within 1 of the original.
C6_LightnessWithinOne ==
    (pc = "hsl-rgb-hsl" /\ IsHslColor(hsl)) => Abs(hslBack.l - hsl.l) <= 1

C6_Witness ==
    /\ pc = "hsl-rgb-hsl"
    /\ hsl = [h |-> 1, s |-> 20, l |-> 10]
    /\ rgb = [r |-> 31, g |-> 21, b |-> 20]
    /\ hslBack = [h |-> 5, s |-> 22, l |-> 10]

\* C7 as stated: hslToRgb(rgbToHsl(rgb)) differs from rgb by at most 1 in
\* each channel, for every rgb with channels in 0..255.
C7_WithinOne == pc = "rgb-hsl-rgb" => ChannelDistance(rgbBack, rgb) <= 1

\* C7 as amended: hslToRgb(rgbToHsl(rgb)) differs from rgb by at most 5 in
\* each channel, for every rgb with channels in 0..255.
C7_WithinFive == pc = "rgb-hsl-rgb" => ChannelDistance(rgbBack, rgb) <= 5

C7_Witness ==
    /\ pc = "rgb-hsl-rgb"
    /\ rgb = [r |-> 2, g |-> 228, b |-> 230]
    /\ hsl = [h |-> 181, s |-> 98, l |-> 45]
    /\ rgbBack = [r |-> 2, g |-> 223, b |-> 227]

ClampedPercent(x) == IF x < 0 THEN 0 ELSE IF x > 100 THEN 100 ELSE x

\* C8: for every HSL input with integer components, whatever their range,
\* hslToRgb returns three channels in 0..255, and returns what it returns
\* for the same hue with saturation and lightness brought into 0..100.
C8_ClampedChannels ==
    pc = "hsl-rgb" =>
        /\ IsRgbColor(rgb)
        /\ \E up \in Ties :
              rgb = hslToRgb([h |-> hsl.h,
                              s |-> ClampedPercent(hsl.s),
                              l |-> ClampedPercent(hsl.l)], up)

C8_Witness ==
    /\ pc = "hsl-rgb"
    /\ hsl = [h |-> -30, s |-> 120, l |-> 50]
    /\ rgb.r = 255 /\ rgb.g = 0 /\ rgb.b \in {127, 128}

----------------------------------------------------------------------------
(* generatePalette *)

shadeOffsetsBaseFirst == <<0, -28, -16, 12, 22>>

shadeOffsets == <<-28, -16, 0, 12, 22>>

complementaryOffsetsReversed == <<12, 0, -12>>

complementaryOffsets == <<-12, 0, 12>>

\* the HSL colour of one shade; offset / 2 is exact, the offsets being even
shadeColor(baseHsl, offset) ==
    [h |-> baseHsl.h,
     s |-> clamp(baseHsl.s + offset \div 2, 12, 96),
     l |-> clamp(baseHsl.l + offset, 8, 94)]

\* the HSL colour of one complementary tone; offset / 4 and offset / 2 are
\* exact, the offsets being multiples of 4
complementaryColor(baseHsl, offset) ==
    [h |-> (baseHsl.h + 180 + offset + 360) % 360,
     s |-> clamp(baseHsl.s + offset \div 4, 18, 96),
     l |-> clamp(baseHsl.l + offset \div 2, 10, 92)]

\* ups[1] belongs to the call of rgbToHsl, ups[2..6] to the five shades and
\* ups[7..9] to the three complementary tones.
generatePalette(baseHex, ups) ==
    LET baseHsl == rgbToHsl(hexToRgb(baseHex), ups[1])
    IN  [shades |->
            [i \in 1..5 |-> hslToHex(shadeColor(baseHsl, shadeOffsets[i]), ups[1 + i])],
         complementary |->
            [j \in 1..3 |->
                hslToHex(complementaryColor(baseHsl, complementaryOffsets[j]),
                         ups[6 + j])]]

\* One choice of ties for each distinct result of a conversion of `color`.
RgbToHslTies(color) ==
    {CHOOSE up \in Ties : rgbToHsl(color, up) = out :
        out \in {rgbToHsl(color, up) : up \in Ties}}

HslToRgbTies(color) ==
    {CHOOSE up \in Ties : hslToRgb(color, up) = out :
        out \in {hslToRgb(color, up) : up \in Ties}}

\* The choices of ties of one call of generatePalette, one for each distinct
\* result.
PaletteTies(baseHex) ==
    UNION {
        LET baseHsl == rgbToHsl(hexToRgb(baseHex), u0)
        IN  {<<u0, u1, u2, u3, u4, u5, u6, u7, u8>> :
                u1 \in HslToRgbTies(shadeColor(baseHsl, shadeOffsets[1])),
                u2 \in HslToRgbTies(shadeColor(baseHsl, shadeOffsets[2])),
                u3 \in HslToRgbTies(shadeColor(baseHsl, shadeOffsets[3])),
                u4 \in HslToRgbTies(shadeColor(baseHsl, shadeOffsets[4])),
                u5 \in HslToRgbTies(shadeColor(baseHsl, shadeOffsets[5])),
                u6 \in HslToRgbTies(complementaryColor(baseHsl, complementaryOffsets[1])),
                u7 \in HslToRgbTies(complementaryColor(baseHsl, complementaryOffsets[2])),
                u8 \in HslToRgbTies(complementaryColor(baseHsl, complementaryOffsets[3]))}
        : u0 \in RgbToHslTies(hexToRgb(baseHex))}

----------------------------------------------------------------------------
(* One call of generatePalette on an arbitrary input *)

\* channels of the six-digit base colours given to generatePalette
PaletteChannels == {0, 1, 82, 128, 157, 254, 255}

SixDigitBody(color, lower) ==
    IF lower THEN toLowerCase(Tail(rgbToHex(color))) ELSE Tail(rgbToHex(color))

\* x is an input of the generatePalette checks: any short string over the
\* whole alphabet, or a six-digit colour in either letter case behind
\* optional whitespace and an optional '#'
IsPaletteInput(x) ==
    \/ x \in Strings(FreeChars, MaxFree)
    \/ \E lead \in 0..MaxPad, hashes \in 0..1, lower \in BOOLEAN :
          \E color \in [r : PaletteChannels, g : PaletteChannels, b : PaletteChannels] :
              x = Framed(lead, hashes, SixDigitBody(color, lower), 0)

InitPalette ==
    /\ pc = "generatePalette"
    /\ IsPaletteInput(hexIn)
    /\ hexOut = NoString
    /\ rgb = NoRgb /\ hsl = NoHsl /\ rgbBack = NoRgb /\ hslBack = NoHsl
    /\ palette = NoPalette
    /\ \E ups \in PaletteTies(hexIn) : tie = [x \in {hexIn} |-> ups]
    /\ calls = <<>> /\ NoRender /\ NoPanel

CallGeneratePalette ==
    /\ pc = "generatePalette"
    /\ palette' = generatePalette(hexIn, tie[hexIn])
    /\ pc' = "palette"
    /\ UNCHANGED <<hexIn, hexOut, rgb, hsl, rgbBack, hslBack>>
    /\ UNCHANGED <<tie, calls, renderVars, panelVars>>

NextPalette == CallGeneratePalette

SpecPalette == InitPalette /\ [][NextPalette]_vars

----------------------------------------------------------------------------
(* Properties of generatePalette *)

\* the results generatePalette can return for baseHex
PaletteResults(baseHex) ==
    {generatePalette(baseHex, ups) : ups \in PaletteTies(baseHex)}

\* the value of the two hexadecimal digits of x at positions i and i + 1
PairValue(x, i) == 16 * DigitValue(x[i]) + DigitValue(x[i + 1])

\* C9: for every input string generatePalette returns exactly 5 shades and
\* exactly 3 complementary tones, each '#' followed by 6 upper-case
\* hexadecimal digits, and for an input that has neither the 3-digit nor the
\* 6-digit form it returns what generatePalette("#529DFF") returns.
C9_PaletteShape ==
    pc = "palette" =>
        /\ Len(palette.shades) = 5
        /\ Len(palette.complementary) = 3
        /\ \A i \in 1..5 : IsUpperHexColor(palette.shades[i])
        /\ \A j \in 1..3 : IsUpperHexColor(palette.complementary[j])
        /\ (~HasHexForm(hexIn, 3) /\ ~HasHexForm(hexIn, 6)) =>
              palette \in PaletteResults(<<"#", "5", "2", "9", "D", "F", "F">>)

C9_Witness ==
    /\ pc = "palette"
    /\ hexIn = <<"g", "g", "g">>
    /\ palette.shades[1] = <<"#", "0", "E", "5", "6", "B", "4">>
    /\ palette.complementary[3] = <<"#", "F", "C", "D", "C", "7", "3">>

\* C10: each RGB channel of the middle shade of generatePalette("#529DFF")
\* is within 4 of the base colour's (82, 157, 255).
C10_MiddleShade ==
    (pc = "palette" /\ hexIn = <<"#", "5", "2", "9", "D", "F", "F">>) =>
        LET middle == palette.shades[3]
        IN  /\ IsUpperHexColor(middle)
            /\ Abs(PairValue(middle, 2) - 82) <= 4
            /\ Abs(PairValue(middle, 4) - 157) <= 4
            /\ Abs(PairValue(middle, 6) - 255) <= 4

C10_Witness ==
    /\ pc = "palette"
    /\ hexIn = <<"#", "5", "2", "9", "D", "F", "F">>
    /\ palette.shades[3] = <<"#", "5", "5", "9", "D", "F", "C">>

\* the hexadecimal forms hslToHex can return for the HSL colour (h, s, l)
HexOfHsl(h, s, l) == {hslToHex([h |-> h, s |-> s, l |-> l], up) : up \in Ties}

\* C11: the output order of generatePalette is the order of the offset lists:
\* with (h, s, l) = rgbToHsl(hexToRgb(base)), shade i is the hex of the HSL
\* colour (h, clamp(s + o_i / 2, 12, 96), clamp(l + o_i, 8, 94)) for
\* o = (-28, -16, 0, 12, 22), the hue held fixed, and complementary tone j is
\* the hex of ((h + 180 + c_j) mod 360, clamp(s + c_j / 4, 18, 96),
\* clamp(l + c_j / 2, 10, 92)) for c = (-12, 0, 12).
C11_OffsetOrder ==
    pc = "palette" =>
        \E up \in Ties :
            LET base == rgbToHsl(hexToRgb(hexIn), up)
                o == <<-28, -16, 0, 12, 22>>
                c == <<-12, 0, 12>>
            IN  /\ \A i \in 1..5 :
                      palette.shades[i] \in
                          HexOfHsl(base.h,
                                   Max2(12, Min2(96, base.s + o[i] \div 2)),
                                   Max2(8, Min2(94, base.l + o[i])))
                /\ \A j \in 1..3 :
                      palette.complementary[j] \in
                          HexOfHsl((base.h + 180 + c[j]) % 360,
                                   Max2(18, Min2(96, base.s + c[j] \div 4)),
                                   Max2(10, Min2(92, base.l + c[j] \div 2)))

C11_Witness ==
    /\ pc = "palette"
    /\ hexIn = <<"8", "0", "5", "2", "F", "F">>
    /\ palette.shades[1] = <<"#", "3", "A", "0", "E", "B", "4">>
    /\ palette.shades[5] = <<"#", "D", "3", "C", "3", "F", "E">>
    /\ palette.complementary[1] = <<"#", "E", "E", "F", "B", "3", "7">>
    /\ palette.complementary[3] = <<"#", "B", "C", "F", "C", "7", "3">>

----------------------------------------------------------------------------
(* escapeHtml and applyInlineFormatting *)

\* the character U+0060, which a string of TLA+ cannot hold
Backtick == "backtick"

\* the characters that '.' of a regular expression does not match
LineTerminators == {"\n", "\r"}

\* the least element of a non-empty set of positions
Least(S) == CHOOSE n \in S : \A m \in S : n <= m

\* The element of a set of one element.  Only({e(x) : x \in {d}}) is e(d) with
\* d worked out once, however often e uses it.
Only(S) == CHOOSE x \in S : TRUE

\* the concatenation of the strings parts[lo], ..., parts[hi]
RECURSIVE concatFrom(_, _, _)
concatFrom(parts, lo, hi) ==
    IF lo > hi THEN <<>>
    ELSE IF lo = hi THEN parts[lo]
    ELSE concatFrom(parts, lo, (lo + hi) \div 2)
            \o concatFrom(parts, (lo + hi) \div 2 + 1, hi)

\* the concatenation of the strings of a sequence
concat(parts) == Only({concatFrom(p, 1, Len(p)) : p \in {parts}})

\* s.replace(/c/g, by) for a pattern of one character
replaceChar(s, c, by) ==
    Only({concat([i \in 1..Len(t) |-> IF t[i] = c THEN by ELSE <<t[i]>>]) : t \in {s}})

escapeHtmlKeepingAngles(value) ==
    replaceChar(replaceChar(replaceChar(value,
        "&", <<"&", "a", "m", "p", ";">>),
        "\"", <<"&", "q", "u", "o", "t", ";">>),
        "'", <<"&", "#", "0", "3", "9", ";">>)

escapeHtmlAmpersandLast(value) ==
    replaceChar(replaceChar(replaceChar(replaceChar(replaceChar(value,
        "<", <<"&", "l", "t", ";">>),
        ">", <<"&", "g", "t", ";">>),
        "\"", <<"&", "q", "u", "o", "t", ";">>),
        "'", <<"&", "#", "0", "3", "9", ";">>),
        "&", <<"&", "a", "m", "p", ";">>)

escapeHtml(value) ==
    replaceChar(replaceChar(replaceChar(replaceChar(replaceChar(value,
        "&", <<"&", "a", "m", "p", ";">>),
        "<", <<"&", "l", "t", ";">>),
        ">", <<"&", "g", "t", ";">>),
        "\"", <<"&", "q", "u", "o", "t", ";">>),
        "'", <<"&", "#", "0", "3", "9", ";">>)

\* the characters of `word` stand in s from position i on
HasAt(s, i, word) ==
    /\ i + Len(word) - 1 <= Len(s)
    /\ SubSeq(s, i, i + Len(word) - 1) = word

\* '.' matches each of the k characters of s from position `from` on
dotMatches(s, from, k) == \A j \in from..(from + k - 1) : s[j] \notin LineTerminators

\* (.+?) followed by `close`, the group starting at position `from`: the
\* length of the shortest group, or 0 when there is none
lazyGroup(s, from, close) ==
    LET ends == {k \in 1..(Len(s) - from + 1) :
                    HasAt(s, from + k, close) /\ dotMatches(s, from, k)}
    IN  IF ends = {} THEN 0 ELSE Least(ends)

\* (?<!\*)\*(?!\*) at position i
loneStar(s, i) ==
    /\ i <= Len(s) /\ s[i] = "*"
    /\ (i = 1 \/ s[i - 1] # "*")
    /\ (i = Len(s) \/ s[i + 1] # "*")

\* (.+?) followed by a lone star, as lazyGroup
lazyGroupStar(s, from) ==
    LET ends == {k \in 1..(Len(s) - from + 1) :
                    loneStar(s, from + k) /\ dotMatches(s, from, k)}
    IN  IF ends = {} THEN 0 ELSE Least(ends)

\* the length of the longest run of characters other than `stop` from
\* position `from` on
runExcept(s, from, stop) ==
    LET stops == {j \in from..Len(s) : s[j] = stop}
    IN  IF from > Len(s) THEN 0
        ELSE IF stops = {} THEN Len(s) - from + 1
        ELSE Least(stops) - from

strong(x) == <<"<", "s", "t", "r", "o", "n", "g", ">">> \o x \o <<"<", "/", "s", "t", "r", "o", "n", "g", ">">>
em(x) == <<"<", "e", "m", ">">> \o x \o <<"<", "/", "e", "m", ">">>
code(x) == <<"<", "c", "o", "d", "e", ">">> \o x \o <<"<", "/", "c", "o", "d", "e", ">">>
anchor(url, text) ==
    <<"<", "a", " ", "h", "r", "e", "f", "=", "\"">>
        \o url
        \o <<"\"", " ", "t", "a", "r", "g", "e", "t", "=", "\"", "_", "b", "l", "a", "n", "k", "\"">>
        \o <<" ", "r", "e", "l", "=", "\"", "n", "o", "o", "p", "e", "n", "e", "r", " ", "n", "o", "r", "e", "f", "e", "r", "r", "e", "r", "\"", ">">>
        \o text \o <<"<", "/", "a", ">">>

NoMatch == [span |-> 0, by |-> <<>>]

\* The match of one pattern of applyInlineFormatting at position i of s: the
\* number of characters it spans (0 when it does not match there) and the
\* text that replaces them.
matchBoldStars(s, i) ==
    LET k == IF HasAt(s, i, <<"*", "*">>)
             THEN lazyGroup(s, i + 2, <<"*", "*">>) ELSE 0
    IN  IF k = 0 THEN NoMatch
        ELSE [span |-> k + 4, by |-> strong(SubSeq(s, i + 2, i + 1 + k))]

matchBoldUnderscores(s, i) ==
    LET k == IF HasAt(s, i, <<"_", "_">>)
             THEN lazyGroup(s, i + 2, <<"_", "_">>) ELSE 0
    IN  IF k = 0 THEN NoMatch
        ELSE [span |-> k + 4, by |-> strong(SubSeq(s, i + 2, i + 1 + k))]

matchItalicStar(s, i) ==
    LET k == IF loneStar(s, i) THEN lazyGroupStar(s, i + 1) ELSE 0
    IN  IF k = 0 THEN NoMatch
        ELSE [span |-> k + 2, by |-> em(SubSeq(s, i + 1, i + k))]

\* /_(.+?)_/ closed by the end of the text as well
matchItalicUnderscoreUnclosed(s, i) ==
    IF s[i] = "_" /\ i < Len(s)
    THEN [span |-> Len(s) - i + 1, by |-> em(SubSeq(s, i + 1, Len(s)))]
    ELSE NoMatch

matchItalicUnderscore(s, i) ==
    LET k == IF s[i] = "_" THEN lazyGroup(s, i + 1, <<"_">>) ELSE 0
    IN  IF k = 0 THEN NoMatch
        ELSE [span |-> k + 2, by |-> em(SubSeq(s, i + 1, i + k))]

matchInlineCode(s, i) ==
    LET k == IF s[i] = Backtick THEN runExcept(s, i + 1, Backtick) ELSE 0
    IN  IF k = 0 \/ i + k + 1 > Len(s) THEN NoMatch
        ELSE [span |-> k + 2, by |-> code(SubSeq(s, i + 1, i + k))]

matchLink(s, i) ==
    LET k == IF s[i] = "[" THEN runExcept(s, i + 1, "]") ELSE 0
        open == i + k + 2
        m == IF k > 0 /\ HasAt(s, i + k + 1, <<"]", "(">>)
             THEN runExcept(s, open + 1, ")") ELSE 0
    IN  IF m = 0 \/ open + m + 1 > Len(s) THEN NoMatch
        ELSE [span |-> k + m + 4,
              by |-> anchor(SubSeq(s, open + 1, open + m), SubSeq(s, i + 1, i + k))]

matchAt(pattern, s, i) ==
    CASE pattern = "**" -> matchBoldStars(s, i)
      [] pattern = "__" -> matchBoldUnderscores(s, i)
      [] pattern = "*" -> matchItalicStar(s, i)
      [] pattern = "_" -> matchItalicUnderscore(s, i)
      [] pattern = "code" -> matchInlineCode(s, i)
      [] pattern = "link" -> matchLink(s, i)

\* s.replace(pattern, replacement) with the g flag, from position i on: the
\* matches are taken from left to right and do not overlap
RECURSIVE replaceFrom(_, _, _)
replaceFrom(pattern, s, i) ==
    Only({IF starts = {} THEN SubSeq(s, i, Len(s))
          ELSE Only({SubSeq(s, i, Least(starts) - 1) \o m.by
                        \o Only({replaceFrom(pattern, s, next) :
                                    next \in {Least(starts) + m.span}}) :
                     m \in {matchAt(pattern, s, Least(starts))}}) :
          starts \in {{j \in i..Len(s) : matchAt(pattern, s, j).span > 0}}})

replaceAll(pattern, s) == Only({replaceFrom(pattern, t, 1) : t \in {s}})

applyInlineFormatting(text) ==
    replaceAll("link",
        replaceAll("code",
            replaceAll("_",
                replaceAll("*",
                    replaceAll("__",
                        replaceAll("**", escapeHtml(text)))))))

----------------------------------------------------------------------------
(* renderMarkdown *)

\* markdown.replace(/\r\n/g, "\n")
replaceCrLf(s) ==
    Only({concat([i \in 1..Len(t) |->
                    IF HasAt(t, i, <<"\r", "\n">>) THEN <<>> ELSE <<t[i]>>]) :
          t \in {s}})

\* s.split("\n"), for the part of s from position `start` on
RECURSIVE splitFrom(_, _)
splitFrom(s, start) ==
    LET breaks == {j \in start..Len(s) : s[j] = "\n"}
    IN  IF breaks = {} THEN <<SubSeq(s, start, Len(s))>>
        ELSE <<SubSeq(s, start, Least(breaks) - 1)>> \o splitFrom(s, Least(breaks) + 1)

split(s) == Only({splitFrom(t, 1) : t \in {s}})

join(parts, separator) ==
    Only({concat([i \in 1..Len(p) |-> IF i = 1 THEN p[i] ELSE separator \o p[i]]) :
          p \in {parts}})

\* line.trim().startsWith("```")
isFence(line) == HasAt(trim(line), 1, <<Backtick, Backtick, Backtick>>)

isBlank(line) == trim(line) = <<>>

\* the length of the longest run of characters of `class` from position
\* `from` on
runOf(s, from, class) ==
    LET others == {j \in from..Len(s) : s[j] \notin class}
    IN  IF from > Len(s) THEN 0
        ELSE IF others = {} THEN Len(s) - from + 1
        ELSE Least(others) - from

\* (.*)$ from position `from` on: the rest of s, if '.' matches all of it
restMatches(s, from) == \A i \in from..Len(s) : s[i] \notin LineTerminators

NoLineMatch == [matched |-> FALSE, level |-> 0, text |-> <<>>]

\* line.match(/^(#{1,6})\s+(.*)$/): the length of group 1 and group 2
headingMatch(line) ==
    LET level == runOf(line, 1, {"#"})
        space == runOf(line, level + 1, WhiteSpace)
    IN  IF level \in 1..6 /\ space >= 1 /\ restMatches(line, level + space + 1)
        THEN [matched |-> TRUE, level |-> level,
              text |-> SubSeq(line, level + space + 1, Len(line))]
        ELSE NoLineMatch

\* line.match(/^\s*[-*+]\s+(.*)$/): group 1
listMatch(line) ==
    LET indent == runOf(line, 1, WhiteSpace)
        marker == indent + 1
        space == runOf(line, marker + 1, WhiteSpace)
    IN  IF /\ marker <= Len(line) /\ line[marker] \in {"-", "*", "+"}
           /\ space >= 1 /\ restMatches(line, marker + space + 1)
        THEN [matched |-> TRUE, level |-> 0,
              text |-> SubSeq(line, marker + space + 1, Len(line))]
        ELSE NoLineMatch

element(tag, content) == <<"<">> \o tag \o <<">">> \o content \o <<"<", "/">> \o tag \o <<">">>

headingTagOne(level) == <<"h", "1">>

headingTag(level) == <<"h", UpperHexDigits[level + 1]>>

\* flushParagraph() putting the paragraph before the parts emitted so far
flushParagraphInFront(parts, buffer) ==
    IF Len(buffer) > 0
    THEN <<element(<<"p">>, applyInlineFormatting(trim(join(buffer, <<"\n">>))))>> \o parts
    ELSE parts

\* the parts after flushParagraph()
flushParagraph(parts, buffer) ==
    IF Len(buffer) > 0
    THEN Append(parts, element(<<"p">>, applyInlineFormatting(trim(join(buffer, <<"\n">>)))))
    ELSE parts

listItemHtml(item) == element(<<"l", "i">>, applyInlineFormatting(trim(item)))

\* flushList() wrapping every item in a list of its own
flushListItemwise(parts, buffer) ==
    IF Len(buffer) > 0
    THEN Append(parts,
            join([i \in 1..Len(buffer) |-> element(<<"u", "l">>, listItemHtml(buffer[i]))],
                 <<>>))
    ELSE parts

\* the parts after flushList()
flushList(parts, buffer) ==
    IF Len(buffer) > 0
    THEN Append(parts,
            element(<<"u", "l">>,
                    join([i \in 1..Len(buffer) |-> listItemHtml(buffer[i])], <<>>)))
    ELSE parts

\* flushCode() formatting the code as it formats a paragraph
flushCodeFormatted(parts, buffer) ==
    IF Len(buffer) > 0
    THEN Append(parts,
            element(<<"p", "r", "e">>,
                    element(<<"c", "o", "d", "e">>,
                            applyInlineFormatting(join(buffer, <<"\n">>)))))
    ELSE parts

\* the parts after flushCode()
flushCode(parts, buffer) ==
    IF Len(buffer) > 0
    THEN Append(parts,
            element(<<"p", "r", "e">>,
                    element(<<"c", "o", "d", "e">>, escapeHtml(join(buffer, <<"\n">>)))))
    ELSE parts

----------------------------------------------------------------------------
(* One call of renderMarkdown on an arbitrary input *)

\* number of lines of the documents given to renderMarkdown
MaxLines == 3

\* the lines the documents are made of: blank lines, fences, headings,
\* bullets, plain and formatted text, text that only looks like a heading or
\* like emphasis, raw HTML, and a bullet that ends in a carriage return
LineMenu ==
    {<<>>,
     <<" ">>,
     <<Backtick, Backtick, Backtick>>,
     <<" ", Backtick, Backtick, Backtick, "j", "s">>,
     <<"#", " ", "T">>,
     <<"#", "#", "#", " ", "*", "*", "b", "*", "*">>,
     <<"#", "x">>,
     <<"-", " ", "o", "n", "e">>,
     <<" ", "*", " ", "<", "b", ">", " ">>,
     <<"+", " ", "_", "c", "_">>,
     <<"a", " ", "*", "*", "b", "*", "*", " ", "_", "c", "_">>,
     <<"*", "*", "n", "o", "t", " ", "b", "o", "l", "d", "*", "*">>,
     <<"*", "a", " ", "_", "b">>,
     <<"<", "s", "c", "r", "i", "p", "t", ">", "a", "l", "e", "r", "t", "(", "1", ")", "<", "/", "s", "c", "r", "i", "p", "t", ">">>,
     <<"-", " ", "t", "w", "o", "\r">>}

\* number of lines between the fences of the fenced documents
MaxCode == 2

\* the lines between the fences of the fenced documents: lines that outside
\* a fence are blank, a heading, a bullet, bold text and raw HTML
CodeMenu ==
    {<<>>,
     <<"#", " ", "T">>,
     <<"-", " ", "o", "n", "e">>,
     <<"*", "*", "n", "o", "t", " ", "b", "o", "l", "d", "*", "*">>,
     <<"a", "<", "b", ">", " ", "&", " ", "\"", "c", "\"">>,
     <<"i", "t", "'", "s">>}

FenceLine == <<Backtick, Backtick, Backtick>>

endsInCr(doc) == doc # <<>> /\ doc[Len(doc)] # <<>> /\ doc[Len(doc)][Len(doc[Len(doc)])] = "\r"

\* a document with a heading, a blank line and a paragraph with bold and
\* italic text, one with a link and inline code, a link whose address holds
\* underscores, bold and italic markers that overlap, and a heading, a list
\* item and a paragraph that hold the characters escapeHtml replaces
ScenarioDocuments ==
    {<<"#", " ", "T", "i", "t", "l", "e", "\n", "\n", "S", "o", "m", "e", " ", "*", "*", "b", "o", "l", "d", "*", "*", " ", "a", "n", "d", " ", "_", "i", "t", "a", "l", "i", "c", "_", " ", "t", "e", "x", "t", ".">>,
     <<"s", "e", "e", " ", "[", "d", "o", "c", "s", "]", "(", "h", "t", "t", "p", ":", "/", "/", "x", ".", "i", "o", ")", " ", "a", "n", "d", " ", Backtick, "c", Backtick>>,
     <<"[", "a", "]", "(", "h", "t", "t", "p", ":", "/", "/", "x", "_", "y", "_", "z", ")">>,
     <<"*", "*", "a", " ", "_", "b", "*", "*", " ", "c", "_">>,
     <<"#", " ", "R", "&", "D", " ", "<", "i", ">", "\n", "-", " ", "\"", "q", "\"", " ", "&", " ", "'", "r", "'", "\n", "\n", "T", "'", "s", " ", "<", "b", ">">>}

\* x is an input of the renderMarkdown checks: lines of the menu joined by
\* newlines, a fenced block followed by at most one more line, or one of the
\* scenario documents; a carriage
\* return stands only before a newline
IsMarkdownInput(x) ==
    \/ \E n \in 1..MaxLines :
          \E doc \in [1..n -> LineMenu] :
              /\ ~endsInCr(doc)
              /\ x = join(doc, <<"\n">>)
    \/ \E n \in 0..MaxCode, t \in 0..1 :
          \E inner \in [1..n -> CodeMenu], rest \in [1..t -> LineMenu] :
              /\ ~endsInCr(rest)
              /\ x = join(<<FenceLine>> \o inner \o <<FenceLine>> \o rest, <<"\n">>)
    \/ x \in ScenarioDocuments

NoColor ==
    /\ hexIn = NoString /\ hexOut = NoString
    /\ rgb = NoRgb /\ hsl = NoHsl /\ rgbBack = NoRgb /\ hslBack = NoHsl
    /\ palette = NoPalette /\ tie = NoTie

InitMarkdown ==
    /\ pc = "renderMarkdown"
    /\ IsMarkdownInput(markdown)
    /\ lines = <<>> /\ scanned = 0
    /\ htmlParts = <<>> /\ paragraph = <<>> /\ listItems = <<>>
    /\ inCodeBlock = FALSE /\ codeBuffer = <<>>
    /\ html = NoString
    /\ calls = <<>>
    /\ NoColor /\ NoPanel

colorVars == <<hexIn, hexOut, rgb, hsl, rgbBack, hslBack, palette, tie>>

StartRenderKeepingLocals ==
    /\ pc = "renderMarkdown"
    /\ lines' = split(replaceCrLf(markdown))
    /\ scanned' = 0
    /\ pc' = "forEach"
    /\ UNCHANGED <<htmlParts, paragraph, listItems, inCodeBlock, codeBuffer>>
    /\ UNCHANGED <<markdown, html, calls, colorVars, panelVars>>

\* the declarations at the head of renderMarkdown
StartRender ==
    /\ pc = "renderMarkdown"
    /\ lines' = split(replaceCrLf(markdown))
    /\ htmlParts' = <<>>
    /\ paragraph' = <<>>
    /\ listItems' = <<>>
    /\ inCodeBlock' = FALSE
    /\ codeBuffer' = <<>>
    /\ scanned' = 0
    /\ pc' = "forEach"
    /\ UNCHANGED <<markdown, html, calls, colorVars, panelVars>>

\* the line the callback of lines.forEach is called with next
line == lines[scanned + 1]

\* One call of the callback of lines.forEach: the action that is enabled is
\* the branch the callback takes.
Visiting ==
    /\ pc = "forEach"
    /\ scanned < Len(lines)
    /\ scanned' = scanned + 1
    /\ UNCHANGED <<pc, markdown, lines, html, calls, colorVars, panelVars>>

OpenFence ==
    /\ Visiting
    /\ isFence(line) /\ ~inCodeBlock
    /\ htmlParts' = flushList(flushParagraph(htmlParts, paragraph), listItems)
    /\ paragraph' = <<>>
    /\ listItems' = <<>>
    /\ inCodeBlock' = TRUE
    /\ UNCHANGED codeBuffer

CloseFence ==
    /\ Visiting
    /\ isFence(line) /\ inCodeBlock
    /\ htmlParts' = flushCode(htmlParts, codeBuffer)
    /\ codeBuffer' = <<>>
    /\ inCodeBlock' = FALSE
    /\ UNCHANGED <<paragraph, listItems>>

CodeLine ==
    /\ Visiting
    /\ ~isFence(line) /\ inCodeBlock
    /\ codeBuffer' = Append(codeBuffer, line)
    /\ UNCHANGED <<htmlParts, paragraph, listItems, inCodeBlock>>

BlankLine ==
    /\ Visiting
    /\ ~isFence(line) /\ ~inCodeBlock
    /\ isBlank(line)
    /\ htmlParts' = flushList(flushParagraph(htmlParts, paragraph), listItems)
    /\ paragraph' = <<>>
    /\ listItems' = <<>>
    /\ UNCHANGED <<inCodeBlock, codeBuffer>>

\* the callback without the return statement that ends the heading branch
HeadingLineFallingThrough ==
    /\ Visiting
    /\ ~isFence(line) /\ ~inCodeBlock /\ ~isBlank(line)
    /\ headingMatch(line).matched
    /\ LET level == headingMatch(line).level
           content == applyInlineFormatting(trim(headingMatch(line).text))
       IN  htmlParts' =
               Append(flushList(flushParagraph(htmlParts, paragraph), listItems),
                      element(headingTag(level), content))
    /\ paragraph' = <<trim(line)>>
    /\ listItems' = <<>>
    /\ UNCHANGED <<inCodeBlock, codeBuffer>>

HeadingLine ==
    /\ Visiting
    /\ ~isFence(line) /\ ~inCodeBlock /\ ~isBlank(line)
    /\ headingMatch(line).matched
    /\ LET level == headingMatch(line).level
           content == applyInlineFormatting(trim(headingMatch(line).text))
       IN  htmlParts' =
               Append(flushList(flushParagraph(htmlParts, paragraph), listItems),
                      element(headingTag(level), content))
    /\ paragraph' = <<>>
    /\ listItems' = <<>>
    /\ UNCHANGED <<inCodeBlock, codeBuffer>>

ListLineKeepingParagraph ==
    /\ Visiting
    /\ ~isFence(line) /\ ~inCodeBlock /\ ~isBlank(line)
    /\ ~headingMatch(line).matched
    /\ listMatch(line).matched
    /\ listItems' = Append(listItems, trim(listMatch(line).text))
    /\ UNCHANGED <<htmlParts, paragraph, inCodeBlock, codeBuffer>>

ListLine ==
    /\ Visiting
    /\ ~isFence(line) /\ ~inCodeBlock /\ ~isBlank(line)
    /\ ~headingMatch(line).matched
    /\ listMatch(line).matched
    /\ htmlParts' = flushParagraph(htmlParts, paragraph)
    /\ paragraph' = <<>>
    /\ listItems' = Append(listItems, trim(listMatch(line).text))
    /\ UNCHANGED <<inCodeBlock, codeBuffer>>

TextLineKeepingList ==
    /\ Visiting
    /\ ~isFence(line) /\ ~inCodeBlock /\ ~isBlank(line)
    /\ ~headingMatch(line).matched
    /\ ~listMatch(line).matched
    /\ paragraph' = Append(paragraph, trim(line))
    /\ UNCHANGED <<htmlParts, listItems, inCodeBlock, codeBuffer>>

TextLine ==
    /\ Visiting
    /\ ~isFence(line) /\ ~inCodeBlock /\ ~isBlank(line)
    /\ ~headingMatch(line).matched
    /\ ~listMatch(line).matched
    /\ htmlParts' = flushList(htmlParts, listItems)
    /\ listItems' = <<>>
    /\ paragraph' = Append(paragraph, trim(line))
    /\ UNCHANGED <<inCodeBlock, codeBuffer>>

\* the statements after lines.forEach, but for the flush of the code buffer
ReturnHtmlWithoutCodeFlush ==
    /\ pc = "forEach"
    /\ scanned = Len(lines)
    /\ LET parts == flushList(flushParagraph(htmlParts, paragraph), listItems)
       IN  /\ htmlParts' = parts
           /\ html' = join(parts, <<>>)
    /\ paragraph' = <<>>
    /\ listItems' = <<>>
    /\ pc' = "rendered"
    /\ UNCHANGED <<markdown, lines, scanned, inCodeBlock, codeBuffer, calls, colorVars, panelVars>>

\* the statements after lines.forEach
ReturnHtml ==
    /\ pc = "forEach"
    /\ scanned = Len(lines)
    /\ LET coded == IF inCodeBlock THEN flushCode(htmlParts, codeBuffer) ELSE htmlParts
           parts == flushList(flushParagraph(coded, paragraph), listItems)
       IN  /\ htmlParts' = parts
           /\ html' = join(parts, <<>>)
    /\ codeBuffer' = IF inCodeBlock THEN <<>> ELSE codeBuffer
    /\ paragraph' = <<>>
    /\ listItems' = <<>>
    /\ pc' = "rendered"
    /\ UNCHANGED <<markdown, lines, scanned, inCodeBlock, calls, colorVars, panelVars>>

NextMarkdown ==
    \/ StartRender
    \/ OpenFence
    \/ CloseFence
    \/ CodeLine
    \/ BlankLine
    \/ HeadingLine
    \/ ListLine
    \/ TextLine
    \/ ReturnHtml

SpecMarkdown == InitMarkdown /\ [][NextMarkdown]_vars

\* renderMarkdown runs to completion within one call: a statement that can
\* be executed is executed
SpecMarkdownFair == SpecMarkdown /\ WF_vars(NextMarkdown)

----------------------------------------------------------------------------
(* A caller that calls renderMarkdown and generatePalette again and again *)

\* number of calls that have returned before the last call starts
MaxEarlierCalls == 2

\* the documents the caller renders: an unclosed fence, which a call leaves
\* with inCodeBlock set, a heading with a list, a paragraph and a closed fence
CallDocuments ==
    {<<Backtick, Backtick, Backtick, "\n", "-", " ", "o", "n", "e">>,
     <<"#", " ", "T", "\n", "\n", "-", " ", "o", "n", "e">>,
     <<"a", " ", "*", "*", "b", "*", "*", " ", "_", "c", "_">>,
     <<Backtick, Backtick, Backtick, "\n", "i", "t", "'", "s", "\n", Backtick, Backtick, Backtick>>}

\* the colours the caller asks a palette for, one of them no hex colour
CallColors ==
    {<<"8", "0", "5", "2", "F", "F">>,
     <<"#", "5", "2", "9", "D", "F", "F">>,
     <<"x", "y", "z">>}

\* No call is under way; the floating-point results of each colour are fixed.
InitCalls ==
    /\ pc = "caller"
    /\ hexIn = NoString /\ hexOut = NoString
    /\ rgb = NoRgb /\ hsl = NoHsl /\ rgbBack = NoRgb /\ hslBack = NoHsl
    /\ palette = NoPalette
    /\ tie \in [CallColors -> UNION {PaletteTies(x) : x \in CallColors}]
    /\ \A x \in CallColors : tie[x] \in PaletteTies(x)
    /\ calls = <<>>
    /\ NoRender /\ NoPanel

\* the call that has just returned, if there is one
Returned ==
    IF pc = "rendered"
    THEN <<[fn |-> "renderMarkdown", arg |-> markdown, out |-> html]>>
    ELSE IF pc = "palette"
    THEN <<[fn |-> "generatePalette", arg |-> hexIn, out |-> palette]>>
    ELSE <<>>

\* the caller has no call under way and may make another
CallerRuns ==
    /\ pc \in {"caller", "rendered", "palette"}
    /\ Len(calls \o Returned) <= MaxEarlierCalls
    /\ calls' = calls \o Returned

\* the variables of a call of renderMarkdown that are local to the call: a
\* call from the caller leaves the model's copy of them as the last call did
renderLocals ==
    <<lines, scanned, htmlParts, paragraph, listItems, inCodeBlock, codeBuffer>>

\* the caller calls renderMarkdown(x)
InvokeRenderMarkdown ==
    /\ CallerRuns
    /\ \E x \in CallDocuments : markdown' = x
    /\ pc' = "renderMarkdown"
    /\ UNCHANGED <<html, renderLocals, colorVars, panelVars>>

\* the caller calls generatePalette(x)
InvokeGeneratePalette ==
    /\ CallerRuns
    /\ \E x \in CallColors : hexIn' = x
    /\ pc' = "generatePalette"
    /\ UNCHANGED <<hexOut, rgb, hsl, rgbBack, hslBack, palette, tie, renderVars,
                   panelVars>>

NextCalls ==
    \/ InvokeRenderMarkdown
    \/ InvokeGeneratePalette
    \/ NextMarkdown
    \/ CallGeneratePalette

SpecCalls == InitCalls /\ [][NextCalls]_vars

----------------------------------------------------------------------------
(* One call of applyInlineFormatting on an arbitrary text *)

\* length of the text between two emphasis markers
MaxInline == 3

\* the characters of the text between the markers: a letter, a space, a
\* character escapeHtml replaces, a line feed and a backtick
InlineChars == {"a", " ", "<", "\n", Backtick}

\* the emphasis markers
Markers == {<<"*", "*">>, <<"_", "_">>, <<"*">>, <<"_">>}

\* x is an input of the applyInlineFormatting checks: a non-empty text
\* between two equal emphasis markers
IsInlineInput(x) ==
    \E marker \in Markers, k \in 1..MaxInline :
        \E inner \in [1..k -> InlineChars] : x = marker \o inner \o marker

InitInline ==
    /\ pc = "inline"
    /\ IsInlineInput(markdown)
    /\ lines = <<>> /\ scanned = 0
    /\ htmlParts = <<>> /\ paragraph = <<>> /\ listItems = <<>>
    /\ inCodeBlock = FALSE /\ codeBuffer = <<>>
    /\ html = NoString
    /\ calls = <<>>
    /\ NoColor /\ NoPanel

\* html = applyInlineFormatting(markdown)
CallApplyInlineFormatting ==
    /\ pc = "inline"
    /\ html' = applyInlineFormatting(markdown)
    /\ pc' = "formatted"
    /\ UNCHANGED <<markdown, renderLocals, calls, colorVars, panelVars>>

NextInline == CallApplyInlineFormatting

SpecInline == InitInline /\ [][NextInline]_vars

----------------------------------------------------------------------------
(* The UUID panel: UuidGenerator *)

\* number of different values generateUuid returns
MaxUuids == 6

\* the values generateUuid returns
UuidMenu == {<<"u", UpperHexDigits[n + 1]>> : n \in 1..MaxUuids}

\* the length the history is cut to
HistoryLimit == 5

\* array.slice(0, n)
slice(array, n) == SubSeq(array, 1, Min2(n, Len(array)))

\* array.filter((item) => item !== value)
without(array, value) == SelectSeq(array, LAMBDA item : item # value)

\* The panel is about to mount; the stored history is empty.
InitUuid ==
    /\ pc = "UuidGenerator"
    /\ history = <<>> /\ current = NoString
    /\ favorites = <<>> /\ baseColor = NoString /\ hexInput = NoString
    /\ calls = <<>>
    /\ NoRender /\ NoColor

\* the effect that runs once after the panel has mounted
MountEffect ==
    /\ pc = "UuidGenerator"
    /\ IF Len(history) > 0
       THEN current' = history[1] /\ UNCHANGED history
       ELSE \E initial \in UuidMenu : history' = <<initial>> /\ current' = initial
    /\ pc' = "historyEffect"
    /\ UNCHANGED <<favorites, baseColor, hexInput, calls, renderVars, colorVars>>

\* the effect that runs after a render in which history has changed
HistoryEffect ==
    /\ pc = "historyEffect"
    /\ current' = IF Len(history) > 0 THEN history[1] ELSE current
    /\ pc' = "uuidPanel"
    /\ UNCHANGED <<history, favorites, baseColor, hexInput, calls, renderVars, colorVars>>

GenerateKeepingDuplicates ==
    /\ pc = "uuidPanel"
    /\ \E next \in UuidMenu :
          /\ history' = slice(<<next>> \o history, HistoryLimit)
          /\ current' = next
    /\ pc' = "historyEffect"
    /\ UNCHANGED <<favorites, baseColor, hexInput, calls, renderVars, colorVars>>

\* the Generate button
Generate ==
    /\ pc = "uuidPanel"
    /\ \E next \in UuidMenu :
          /\ history' = slice(<<next>> \o without(history, next), HistoryLimit)
          /\ current' = next
    /\ pc' = "historyEffect"
    /\ UNCHANGED <<favorites, baseColor, hexInput, calls, renderVars, colorVars>>

\* the Clear button
ClearHistory ==
    /\ pc = "uuidPanel"
    /\ history' = <<>>
    /\ current' = NoString
    /\ pc' = "historyEffect"
    /\ UNCHANGED <<favorites, baseColor, hexInput, calls, renderVars, colorVars>>

NextUuid ==
    \/ MountEffect
    \/ HistoryEffect
    \/ Generate
    \/ ClearHistory

SpecUuid == InitUuid /\ [][NextUuid]_vars

----------------------------------------------------------------------------
(* The palette panel: the favorites of ColorPalettePicker *)

\* the texts typed into the hex field: no colour, short and long forms, with
\* and without '#', in lower and in upper case; with the colour the panel
\* starts with they name seven different colours
TypedColors ==
    {<<"x", "y", "z">>,
     <<"0", "0", "0">>,
     <<"#", "f", "f", "f">>,
     <<"#", "8", "0", "5", "2", "F", "F">>,
     <<"#", "F", "F", "0", "0", "0", "0">>,
     <<"#", "0", "0", "F", "F", "0", "0">>,
     <<"#", "0", "0", "0", "0", "F", "F">>}

\* the number of favorites the list is cut to
FavoritesLimit == 6

\* the colour the panel starts with
InitialColor == <<"#", "5", "2", "9", "D", "F", "F">>

\* the value generateUuid returns when the base colour `base` is saved: the
\* same value for colours with the same red channel, so that some favorites
\* share an id and others do not
idOf(base) == <<"u", base[2], base[3]>>

\* The panel is about to mount; no favorites are stored.
InitFavorites ==
    /\ pc = "ColorPalettePicker"
    /\ favorites = <<>>
    /\ baseColor = InitialColor /\ hexInput = InitialColor
    /\ history = <<>> /\ current = NoString
    /\ calls = <<>>
    /\ NoRender /\ NoColor

\* the effect that runs after the mount and after a render in which hexInput
\* has changed
HexInputEffect ==
    /\ pc \in {"ColorPalettePicker", "hexInputEffect"}
    /\ baseColor' = normalizeHex(hexInput)
    /\ pc' = "palettePanel"
    /\ UNCHANGED <<favorites, hexInput, history, current, calls, renderVars, colorVars>>

\* setHexInput(value): the effect runs when the value is a new one
setHexInput(value) ==
    /\ hexInput' = value
    /\ pc' = IF value = hexInput THEN "palettePanel" ELSE "hexInputEffect"

\* typing into the hex field
handleHexChange ==
    /\ pc = "palettePanel"
    /\ \E value \in TypedColors :
          setHexInput(IF value # <<>> /\ Head(value) = "#" THEN value ELSE <<"#">> \o value)
    /\ UNCHANGED <<favorites, baseColor, history, current, calls, renderVars, colorVars>>

\* choosing a colour in the colour field, which reports it as #rrggbb
ColorFieldChange ==
    /\ pc = "palettePanel"
    /\ \E typed \in TypedColors :
          LET value == toLowerCase(normalizeHex(typed))
          IN  /\ baseColor' = toUpperCase(value)
              /\ setHexInput(toUpperCase(value))
    /\ UNCHANGED <<favorites, history, current, calls, renderVars, colorVars>>

\* leaving the hex field, which shows hexInput in upper case
HexFieldBlur ==
    /\ pc = "palettePanel"
    /\ setHexInput(normalizeHex(toUpperCase(hexInput)))
    /\ UNCHANGED <<favorites, baseColor, history, current, calls, renderVars, colorVars>>

\* the Apply button of favorite number i
ApplyFavorite ==
    /\ pc = "palettePanel"
    /\ \E i \in 1..Len(favorites) : setHexInput(favorites[i].base)
    /\ UNCHANGED <<favorites, baseColor, history, current, calls, renderVars, colorVars>>

\* A favorite is kept as its id and its base colour; its shades,
\* complementary tones and savedAt are written here and read by no operation.
saveFavoriteUnchecked ==
    /\ pc = "palettePanel"
    /\ LET normalizedBase == normalizeHex(baseColor)
       IN  favorites' = slice(<<[id |-> idOf(normalizedBase), base |-> normalizedBase]>>
                                  \o favorites, FavoritesLimit)
    /\ UNCHANGED <<pc, baseColor, hexInput, history, current, calls, renderVars, colorVars>>

\* the Save button
saveFavorite ==
    /\ pc = "palettePanel"
    /\ LET normalizedBase == normalizeHex(baseColor)
       IN  IF \E i \in 1..Len(favorites) : favorites[i].base = normalizedBase
           THEN UNCHANGED favorites
           ELSE favorites' =
                    slice(<<[id |-> idOf(normalizedBase), base |-> normalizedBase]>>
                              \o favorites, FavoritesLimit)
    /\ UNCHANGED <<pc, baseColor, hexInput, history, current, calls, renderVars, colorVars>>

\* the remove button of favorite number i
removeFavorite ==
    /\ pc = "palettePanel"
    /\ \E i \in 1..Len(favorites) :
          favorites' = SelectSeq(favorites, LAMBDA favorite : favorite.id # favorites[i].id)
    /\ UNCHANGED <<pc, baseColor, hexInput, history, current, calls, renderVars, colorVars>>

NextFavorites ==
    \/ HexInputEffect
    \/ handleHexChange
    \/ ColorFieldChange
    \/ HexFieldBlur
    \/ ApplyFavorite
    \/ saveFavorite
    \/ removeFavorite

SpecFavorites == InitFavorites /\ [][NextFavorites]_vars

----------------------------------------------------------------------------
(* Properties of renderMarkdown *)

\* the tags renderMarkdown writes, but for the opening tag of a link
RendererTags ==
    {<<"<", "p", ">">>, <<"<", "/", "p", ">">>,
     <<"<", "u", "l", ">">>, <<"<", "/", "u", "l", ">">>,
     <<"<", "l", "i", ">">>, <<"<", "/", "l", "i", ">">>,
     <<"<", "p", "r", "e", ">">>, <<"<", "/", "p", "r", "e", ">">>,
     <<"<", "c", "o", "d", "e", ">">>,
     <<"<", "/", "c", "o", "d", "e", ">">>,
     <<"<", "s", "t", "r", "o", "n", "g", ">">>,
     <<"<", "/", "s", "t", "r", "o", "n", "g", ">">>,
     <<"<", "e", "m", ">">>, <<"<", "/", "e", "m", ">">>,
     <<"<", "/", "a", ">">>}
        \cup {<<"<">> \o headingTag(n) \o <<">">> : n \in 1..6}
        \cup {<<"<", "/">> \o headingTag(n) \o <<">">> : n \in 1..6}

\* the first and the last characters of the opening tag of a link
LinkTagHead == <<"<", "a", " ", "h", "r", "e", "f", "=", "\"">>
LinkTagTail == <<" ", "r", "e", "l", "=", "\"", "n", "o", "o", "p", "e", "n", "e", "r", " ", "n", "o", "r", "e", "f", "e", "r", "r", "e", "r", "\"", ">">>

\* a tag of the renderer starts at position i of s
TagStartsAt(s, i) ==
    \/ \E tag \in RendererTags : HasAt(s, i, tag)
    \/ HasAt(s, i, LinkTagHead)

\* a tag of the renderer ends at position i of s
TagEndsAt(s, i) ==
    \/ \E tag \in RendererTags : i >= Len(tag) /\ HasAt(s, i - Len(tag) + 1, tag)
    \/ i >= Len(LinkTagTail) /\ HasAt(s, i - Len(LinkTagTail) + 1, LinkTagTail)

\* the number of places of s where `word` stands
Occurrences(s, word) == Cardinality({i \in 1..Len(s) : HasAt(s, i, word)})

\* the number of characters c in the lines of the input that are not fences
TypedOutsideFences(c) ==
    Cardinality(UNION {{<<k, i>> : i \in {j \in 1..Len(lines[k]) : lines[k][j] = c}} :
                          k \in {n \in 1..Len(lines) : ~isFence(lines[n])}})

\* C12: the output of renderMarkdown holds no '<' or '>' of the input: every
\* '<' of the output starts a tag the renderer writes (p, h1-h6, ul, li, pre,
\* code, strong, em, a) and every '>' ends one, and every angle bracket typed
\* outside a fence line is there as &lt; or &gt;; the input
\* "<script>alert(1)</script>" yields no <script> tag.
C12_NoInputTags ==
    pc = "rendered" =>
        /\ \A i \in 1..Len(html) :
              /\ html[i] = "<" => TagStartsAt(html, i)
              /\ html[i] = ">" => TagEndsAt(html, i)
        /\ Occurrences(html, <<"&", "l", "t", ";">>) = TypedOutsideFences("<")
        /\ Occurrences(html, <<"&", "g", "t", ";">>) = TypedOutsideFences(">")
        /\ Occurrences(html, <<"<", "s", "c", "r", "i", "p", "t">>) = 0

C12_Witness ==
    /\ pc = "rendered"
    /\ markdown = <<"<", "s", "c", "r", "i", "p", "t", ">", "a", "l", "e", "r", "t", "(", "1", ")", "<", "/", "s", "c", "r", "i", "p", "t", ">">>
    /\ html = <<"<", "p", ">", "&", "l", "t", ";", "s", "c", "r", "i", "p", "t", "&", "g", "t", ";", "a", "l", "e", "r", "t", "(", "1", ")", "&", "l", "t", ";", "/", "s", "c", "r", "i", "p", "t", "&", "g", "t", ";", "<", "/", "p", ">">>

\* a step of lines.forEach: the callback is called with `line`
VisitsLine == pc = "forEach" /\ scanned' = scanned + 1

\* the blocks the line visited by a step is assigned to: it joins the open
\* paragraph, is emitted as a heading, joins the open list, or belongs to a
\* fenced code block as one of its lines or as one of its fences
JoinsParagraph == paragraph' = Append(paragraph, trim(line))

BecomesHeading ==
    /\ Len(htmlParts') > Len(htmlParts)
    /\ HasAt(htmlParts'[Len(htmlParts')], 1, <<"<", "h">>)

JoinsList == Len(listItems') = Len(listItems) + 1

JoinsCode == codeBuffer' = Append(codeBuffer, line) \/ inCodeBlock' # inCodeBlock

BlocksJoined ==
    Cardinality({b \in {"paragraph", "heading", "list", "code"} :
                    \/ b = "paragraph" /\ JoinsParagraph
                    \/ b = "heading" /\ BecomesHeading
                    \/ b = "list" /\ JoinsList
                    \/ b = "code" /\ JoinsCode})

\* C13 as stated: the scan assigns every input line to exactly one block
\* (paragraph, heading, unordered list or fenced code block).
C13_EveryLineInOneBlock == [][VisitsLine => BlocksJoined = 1]_vars

\* C13: the scan assigns every input line to at most one block: a blank line
\* outside a fenced code block to none (it only closes the open paragraph or
\* list), every other line to exactly one.
C13_NonBlankLinesInOneBlock ==
    [][VisitsLine =>
          BlocksJoined = (IF ~inCodeBlock /\ trim(line) = <<>> THEN 0 ELSE 1)]_vars

C13_Witness ==
    /\ pc = "rendered"
    /\ markdown = <<"#", " ", "T", "\n", "\n", "-", " ", "o", "n", "e">>
    /\ html = <<"<", "h", "1", ">", "T", "<", "/", "h", "1", ">", "<", "u", "l", ">", "<", "l", "i", ">", "o", "n", "e", "<", "/", "l", "i", ">", "<", "/", "u", "l", ">">>

\* C14: after any prefix of the lines, at most one of the paragraph buffer and
\* the list buffer is non-empty, both are empty inside a fenced code block,
\* and the code buffer is non-empty only inside a fenced code block.
C14_OneOpenBuffer ==
    pc \in {"forEach", "rendered"} =>
        /\ paragraph = <<>> \/ listItems = <<>>
        /\ inCodeBlock => paragraph = <<>> /\ listItems = <<>>
        /\ codeBuffer # <<>> => inCodeBlock

C14_Witness ==
    /\ pc = "forEach"
    /\ scanned = 3
    /\ lines = <<<<"-", " ", "o", "n", "e">>, <<"#", "x">>, FenceLine>>
    /\ Len(htmlParts) = 2
    /\ paragraph = <<>> /\ listItems = <<>> /\ inCodeBlock

\* the number of fence lines among the first k lines, and the last of them
FencesUpTo(k) == Cardinality({j \in 1..k : isFence(lines[j])})

LastFenceUpTo(k) ==
    IF FencesUpTo(k) = 0 THEN 0
    ELSE CHOOSE j \in 1..k : isFence(lines[j]) /\ \A i \in (j + 1)..k : ~isFence(lines[i])

\* the first k lines end inside a fenced code block
InsideFence(k) == FencesUpTo(k) % 2 = 1

\* text with each of its characters escaped once
EscapedOnce(text) ==
    join([i \in 1..Len(text) |->
            CASE text[i] = "&" -> <<"&", "a", "m", "p", ";">>
              [] text[i] = "<" -> <<"&", "l", "t", ";">>
              [] text[i] = ">" -> <<"&", "g", "t", ";">>
              [] text[i] = "\"" -> <<"&", "q", "u", "o", "t", ";">>
              [] text[i] = "'" -> <<"&", "#", "0", "3", "9", ";">>
              [] OTHER -> <<text[i]>>],
         <<>>)

\* the block of the code lines ls
CodeBlockOf(ls) ==
    <<"<", "p", "r", "e", ">", "<", "c", "o", "d", "e", ">">>
        \o EscapedOnce(join(ls, <<"\n">>))
        \o <<"<", "/", "c", "o", "d", "e", ">", "<", "/", "p", "r", "e", ">">>

\* C15: the lines between an opening fence and its closing fence are appended
\* to the code buffer verbatim and in order; a blank, heading-like or
\* bullet-like line inside the fence flushes nothing and emits no block; and
\* at the closing fence the block is emitted as <pre><code>...</code></pre>
\* holding the lines joined by newlines, escaped once, "**not bold**" staying
\* literal asterisks.
C15_CodeVerbatim ==
    /\ [](pc = "forEach" =>
            LET opened == LastFenceUpTo(scanned)
            IN  /\ InsideFence(scanned) =>
                      codeBuffer = SubSeq(lines, opened + 1, scanned)
                /\ (/\ scanned > 0 /\ opened = scanned /\ ~InsideFence(scanned)
                    /\ LastFenceUpTo(scanned - 1) < scanned - 1) =>
                      htmlParts[Len(htmlParts)] =
                          CodeBlockOf(SubSeq(lines, LastFenceUpTo(scanned - 1) + 1,
                                             scanned - 1)))
    /\ [][(VisitsLine /\ InsideFence(scanned) /\ ~isFence(line)) =>
              UNCHANGED <<htmlParts, paragraph, listItems>>]_vars

C15_Witness ==
    /\ pc = "rendered"
    /\ markdown = <<Backtick, Backtick, Backtick, "\n", "#", " ", "T", "\n", "*", "*", "n", "o", "t", " ", "b", "o", "l", "d", "*", "*", "\n", Backtick, Backtick, Backtick>>
    /\ html = <<"<", "p", "r", "e", ">", "<", "c", "o", "d", "e", ">", "#", " ", "T", "\n", "*", "*", "n", "o", "t", " ", "b", "o", "l", "d", "*", "*", "<", "/", "c", "o", "d", "e", ">", "<", "/", "p", "r", "e", ">">>

\* the statements after lines.forEach are run
Returns == pc = "forEach" /\ pc' = "rendered"

\* C16: at the end of input nothing stays buffered: the lines of an
\* unterminated fence are emitted as a last <pre><code> block, an open
\* paragraph or list is emitted after that, the result is the emitted blocks
\* and every buffer is empty.
C16_NothingLeftBuffered ==
    /\ [](pc = "rendered" =>
            /\ paragraph = <<>> /\ listItems = <<>> /\ codeBuffer = <<>>
            /\ html = join(htmlParts, <<>>)
            /\ LET opened == LastFenceUpTo(Len(lines))
               IN  (InsideFence(Len(lines)) /\ opened < Len(lines)) =>
                       htmlParts[Len(htmlParts)] =
                           CodeBlockOf(SubSeq(lines, opened + 1, Len(lines))))
    /\ [][Returns =>
              LET open == (IF codeBuffer # <<>> THEN 1 ELSE 0)
                          + (IF paragraph # <<>> THEN 1 ELSE 0)
                          + (IF listItems # <<>> THEN 1 ELSE 0)
                  last == htmlParts'[Len(htmlParts')]
              IN  /\ Len(htmlParts') = Len(htmlParts) + open
                  /\ SubSeq(htmlParts', 1, Len(htmlParts)) = htmlParts
                  /\ paragraph # <<>> => HasAt(last, 1, <<"<", "p", ">">>)
                  /\ listItems # <<>> => HasAt(last, 1, <<"<", "u", "l", ">", "<", "l", "i", ">">>)]_vars

C16_Witness ==
    /\ pc = "rendered"
    /\ markdown = <<"#", "x", "\n", Backtick, Backtick, Backtick, "\n", "-", " ", "o", "n", "e">>
    /\ html = <<"<", "p", ">", "#", "x", "<", "/", "p", ">", "<", "p", "r", "e", ">", "<", "c", "o", "d", "e", ">", "-", " ", "o", "n", "e", "<", "/", "c", "o", "d", "e", ">", "<", "/", "p", "r", "e", ">">>

\* line k is a bullet line: optional indentation, '-', '*' or '+', whitespace
\* and the text of the item
IsBulletLine(k) == ~isFence(lines[k]) /\ listMatch(lines[k]).matched

\* the number of consecutive bullet lines that end the first k lines
RECURSIVE BulletRun(_)
BulletRun(k) == IF k = 0 \/ ~IsBulletLine(k) THEN 0 ELSE 1 + BulletRun(k - 1)

\* the <ul> of the items
ListOf(items) ==
    <<"<", "u", "l", ">">>
        \o join([i \in 1..Len(items) |->
                    <<"<", "l", "i", ">">> \o applyInlineFormatting(items[i])
                        \o <<"<", "/", "l", "i", ">">>],
                <<>>)
        \o <<"<", "/", "u", "l", ">">>

IsPlainLine(k) ==
    /\ ~isFence(lines[k]) /\ ~isBlank(lines[k])
    /\ ~headingMatch(lines[k]).matched /\ ~listMatch(lines[k]).matched

\* the number of characters c in text
CountOf(text, c) == Cardinality({i \in 1..Len(text) : text[i] = c})

\* text holds no pair of emphasis markers, no inline code and no link
HasNoMarkup(text) ==
    /\ CountOf(text, "*") <= 1 /\ CountOf(text, "_") <= 1
    /\ CountOf(text, Backtick) = 0 /\ CountOf(text, "[") = 0

\* C18: renderMarkdown returns on every input; lines that match no block
\* pattern are emitted as the text of a paragraph, and an emphasis marker
\* without its pair is emitted as it was typed.
C18_AlwaysReturns ==
    /\ <>(pc = "rendered")
    /\ [](pc = "rendered" /\ (\A k \in 1..Len(lines) : IsPlainLine(k)) =>
            LET text == trim(join([k \in 1..Len(lines) |-> trim(lines[k])], <<"\n">>))
            IN  /\ html = <<"<", "p", ">">> \o applyInlineFormatting(text) \o <<"<", "/", "p", ">">>
                /\ HasNoMarkup(text) =>
                      html = <<"<", "p", ">">> \o EscapedOnce(text) \o <<"<", "/", "p", ">">>)

C18_Witness ==
    /\ pc = "rendered"
    /\ markdown = <<"#", "x", "\n", "*", "a", " ", "_", "b">>
    /\ html = <<"<", "p", ">", "#", "x", "\n", "*", "a", " ", "_", "b", "<", "/", "p", ">">>

\* C19: no state is kept between calls.  A call of renderMarkdown or of
\* generatePalette that follows any earlier calls returns what every earlier
\* call with the same argument returned, and a call of renderMarkdown starts
\* its scan with empty paragraph, list and code buffers.
C19_NoStateRetained ==
    /\ \A k \in 1..Len(calls) :
          LET earlier == calls[k]
          IN  /\ pc = "rendered" /\ earlier.fn = "renderMarkdown"
                    /\ earlier.arg = markdown => earlier.out = html
              /\ pc = "palette" /\ earlier.fn = "generatePalette"
                    /\ earlier.arg = hexIn => earlier.out = palette
    /\ pc = "forEach" /\ scanned = 0 =>
          paragraph = <<>> /\ listItems = <<>> /\ codeBuffer = <<>>

C19_Witness ==
    /\ pc = "rendered"
    /\ Len(calls) = 2
    /\ calls[1].fn = "renderMarkdown" /\ calls[1].arg = markdown
    /\ calls[2].fn = "renderMarkdown" /\ calls[2].arg = <<Backtick, Backtick, Backtick, "\n", "-", " ", "o", "n", "e">>
    /\ markdown = <<"#", " ", "T", "\n", "\n", "-", " ", "o", "n", "e">>
    /\ html = <<"<", "h", "1", ">", "T", "<", "/", "h", "1", ">", "<", "u", "l", ">", "<", "l", "i", ">", "o", "n", "e", "<", "/", "l", "i", ">", "<", "/", "u", "l", ">">>
    /\ calls[1].out = html

\* C20: whenever renderMarkdown reads a fence line inside a code block, it
\* appends one <pre><code>...</code></pre> block holding the escaped buffered
\* lines, none included, and is outside any block afterwards.
C20_FenceClosesWithOneBlock ==
    [][pc = "forEach" /\ scanned < Len(lines) /\ inCodeBlock /\ isFence(line) =>
          /\ htmlParts' = Append(htmlParts, CodeBlockOf(codeBuffer))
          /\ ~inCodeBlock'
          /\ paragraph' = <<>> /\ listItems' = <<>> /\ codeBuffer' = <<>>]_vars

\* the number of '#' characters text starts with
HashRun(text) == Least({n \in 0..Len(text) : n = Len(text) \/ text[n + 1] # "#"})

\* line k is N '#' characters, 1 <= N <= 6, followed by whitespace and a
\* remainder
IsHeadingLine(k) ==
    /\ HashRun(lines[k]) \in 1..6
    /\ HashRun(lines[k]) < Len(lines[k])
    /\ lines[k][HashRun(lines[k]) + 1] \in WhiteSpace

\* the <p> of the buffered lines
ParagraphOf(buffer) ==
    <<"<", "p", ">">> \o applyInlineFormatting(trim(join(buffer, <<"\n">>))) \o <<"<", "/", "p", ">">>

\* the block that closes when the open paragraph or list is flushed
ClosedBlock ==
    IF paragraph # <<>> THEN <<ParagraphOf(paragraph)>>
    ELSE IF listItems # <<>> THEN <<ListOf(listItems)>>
    ELSE <<>>

\* the <hN> of a heading line
HeadingOf(text) ==
    LET n == HashRun(text)
        digit == <<"1", "2", "3", "4", "5", "6">>[n]
    IN  <<"<", "h", digit, ">">>
            \o applyInlineFormatting(trim(SubSeq(text, n + 2, Len(text))))
            \o <<"<", "/", "h", digit, ">">>

\* C21: outside a code block a line of N '#' characters (1 <= N <= 6),
\* whitespace and a remainder closes the open paragraph or list and then
\* emits one <hN> element around the inline-formatted remainder; the line
\* joins no paragraph and no list.
C21_HeadingEmitted ==
    [][pc = "forEach" /\ scanned < Len(lines) /\ ~inCodeBlock
            /\ IsHeadingLine(scanned + 1) =>
          /\ htmlParts' = htmlParts \o ClosedBlock \o <<HeadingOf(line)>>
          /\ paragraph' = <<>> /\ listItems' = <<>>]_vars

C21_Witness ==
    /\ pc = "rendered"
    /\ markdown = <<"#", " ", "T", "i", "t", "l", "e", "\n", "\n", "S", "o", "m", "e", " ", "*", "*", "b", "o", "l", "d", "*", "*", " ", "a", "n", "d", " ", "_", "i", "t", "a", "l", "i", "c", "_", " ", "t", "e", "x", "t", ".">>
    /\ html = <<"<", "h", "1", ">", "T", "i", "t", "l", "e", "<", "/", "h", "1", ">", "<", "p", ">", "S", "o", "m", "e", " ", "<", "s", "t", "r", "o", "n", "g", ">", "b", "o", "l", "d", "<", "/", "s", "t", "r", "o", "n", "g", ">", " ", "a", "n", "d", " ", "<", "e", "m", ">", "i", "t", "a", "l", "i", "c", "<", "/", "e", "m", ">", " ", "t", "e", "x", "t", ".", "<", "/", "p", ">">>

\* the number of consecutive plain lines that end the first k lines
RECURSIVE PlainRun(_)
PlainRun(k) == IF k = 0 \/ ~IsPlainLine(k) THEN 0 ELSE 1 + PlainRun(k - 1)

\* C22: a change between list and paragraph content closes the open block
\* before the new one opens.  A bullet line after paragraph lines emits the
\* <p> and then starts the list; a plain line after bullet lines emits the
\* <ul> and then starts the paragraph; consecutive plain lines are buffered
\* trimmed, and leave as one <p> holding them joined by newlines.
C22_BlockClosesBeforeNextOpens ==
    /\ [](pc = "forEach" /\ ~InsideFence(scanned) =>
            LET k == PlainRun(scanned)
            IN  paragraph = [i \in 1..k |-> trim(lines[scanned - k + i])])
    /\ [][pc = "forEach" /\ scanned < Len(lines) /\ ~inCodeBlock
              /\ paragraph # <<>> /\ IsBulletLine(scanned + 1) =>
            /\ htmlParts' = Append(htmlParts, ParagraphOf(paragraph))
            /\ paragraph' = <<>>
            /\ Len(listItems') = 1]_vars
    /\ [][pc = "forEach" /\ scanned < Len(lines) /\ ~inCodeBlock
              /\ listItems # <<>> /\ IsPlainLine(scanned + 1) =>
            /\ htmlParts' = Append(htmlParts, ListOf(listItems))
            /\ listItems' = <<>>
            /\ paragraph' = <<trim(line)>>]_vars
    /\ [][pc = "forEach" /\ paragraph # <<>> /\ paragraph' = <<>> =>
            /\ Len(htmlParts') > Len(htmlParts)
            /\ htmlParts'[Len(htmlParts) + 1] = ParagraphOf(paragraph)
            /\ Occurrences(htmlParts'[Len(htmlParts) + 1], <<"<", "p", ">">>) = 1]_vars

C22_Witness ==
    /\ pc = "rendered"
    /\ markdown = <<"#", "x", "\n", "-", " ", "o", "n", "e", "\n", "*", "a", " ", "_", "b">>
    /\ html = <<"<", "p", ">", "#", "x", "<", "/", "p", ">", "<", "u", "l", ">", "<", "l", "i", ">", "o", "n", "e", "<", "/", "l", "i", ">", "<", "/", "u", "l", ">", "<", "p", ">", "*", "a", " ", "_", "b", "<", "/", "p", ">">>

\* the emphasis marker text starts with
MarkerOf(text) ==
    IF HasAt(text, 1, <<"*", "*">>) THEN <<"*", "*">>
    ELSE IF HasAt(text, 1, <<"_", "_">>) THEN <<"_", "_">>
    ELSE <<text[1]>>

\* the text between the two markers of text
InnerOf(text) == SubSeq(text, Len(MarkerOf(text)) + 1, Len(text) - Len(MarkerOf(text)))

\* C23: bold is resolved before italic.  For every non-empty x without
\* emphasis markers, "**x**" and "__x__" come out as <strong>x</strong>, with
\* no <em> element, and "*x*" and "_x_" as <em>x</em>, x being escaped and
\* formatted as it is on its own.
C23_BoldBeforeItalic ==
    pc = "formatted" =>
        /\ Len(MarkerOf(markdown)) = 2 =>
              /\ html = <<"<", "s", "t", "r", "o", "n", "g", ">">> \o applyInlineFormatting(InnerOf(markdown))
                            \o <<"<", "/", "s", "t", "r", "o", "n", "g", ">">>
              /\ Occurrences(html, <<"<", "e", "m", ">">>) = 0
        /\ Len(MarkerOf(markdown)) = 1 =>
              html = <<"<", "e", "m", ">">> \o applyInlineFormatting(InnerOf(markdown)) \o <<"<", "/", "e", "m", ">">>

\* the entity escapeHtml writes for the character c
EntityOf(c) ==
    CASE c = "&" -> <<"&", "a", "m", "p", ";">>
      [] c = "<" -> <<"&", "l", "t", ";">>
      [] c = ">" -> <<"&", "g", "t", ";">>
      [] c = "\"" -> <<"&", "q", "u", "o", "t", ";">>
      [] c = "'" -> <<"&", "#", "0", "3", "9", ";">>

\* C24: every fragment of raw text (paragraph, heading, list item, code
\* block) is escaped exactly once on its way to the output, '&' first: each
\* '&', '<', '>', '"' and "'" typed outside a fence line is in the output as
\* one entity, the '&' of an entity is not escaped again ("&amp;lt;" never
\* appears), and the only quotes left are those of the link attributes.
C24_EscapedExactlyOnce ==
    pc = "rendered" =>
        /\ \A c \in {"&", "<", ">", "\"", "'"} :
              Occurrences(html, EntityOf(c)) = TypedOutsideFences(c)
        /\ \A c \in {"<", ">", "\"", "'"} :
              Occurrences(html, <<"&", "a", "m", "p", ";">> \o Tail(EntityOf(c))) = 0
        /\ Occurrences(html, <<"&", "a", "m", "p", ";", "a", "m", "p", ";">>) = 0
        /\ Occurrences(html, <<"'">>) = 0
        /\ Occurrences(html, <<"\"">>) = 6 * Occurrences(html, LinkTagHead)

C24_Witness ==
    /\ pc = "rendered"
    /\ markdown = <<"#", " ", "R", "&", "D", " ", "<", "i", ">", "\n", "-", " ", "\"", "q", "\"", " ", "&", " ", "'", "r", "'", "\n", "\n", "T", "'", "s", " ", "<", "b", ">">>
    /\ html = <<"<", "h", "1", ">", "R", "&", "a", "m", "p", ";", "D", " ", "&", "l", "t", ";", "i", "&", "g", "t", ";", "<", "/", "h", "1", ">", "<", "u", "l", ">", "<", "l", "i", ">", "&", "q", "u", "o", "t", ";", "q", "&", "q", "u", "o", "t", ";", " ", "&", "a", "m", "p", ";", " ", "&", "#", "0", "3", "9", ";", "r", "&", "#", "0", "3", "9", ";", "<", "/", "l", "i", ">", "<", "/", "u", "l", ">", "<", "p", ">", "T", "&", "#", "0", "3", "9", ";", "s", " ", "&", "l", "t", ";", "b", "&", "g", "t", ";", "<", "/", "p", ">">>

----------------------------------------------------------------------------
(* Further properties of the colour functions *)

\* the colour with its hue turned by k full turns
Turned(color, k) == [h |-> color.h + 360 * k, s |-> color.s, l |-> color.l]

\* C25: hslToRgb wraps the hue into [0,360) before it uses it: a hue moved by
\* any number of full turns, below zero included, gives the same colour.
C25_HueWraps ==
    pc = "hsl-rgb" =>
        \A up \in Ties :
            hslToRgb(hsl, up) = rgb =>
                \A k \in (-HueTurns - 1)..(HueTurns + 1) :
                    /\ hslToRgb(Turned(hsl, k), up) = rgb
                    /\ hslToRgb(Turned(hsl, k), up)
                          = hslToRgb([Turned(hsl, k) EXCEPT !.h = @ % 360], up)

C25_Witness ==
    /\ pc = "hsl-rgb"
    /\ hsl = [h |-> -330, s |-> 100, l |-> 50]
    /\ rgb = [r |-> 255, g |-> 128, b |-> 0]

\* the elements of the sequence are pairwise distinct
Distinct(seq) == \A i, j \in 1..Len(seq) : i # j => seq[i] # seq[j]

\* C26: the five shades generatePalette returns are pairwise distinct hex
\* strings, and so are the three complementary tones.
C26_SwatchesDistinct ==
    pc = "palette" => Distinct(palette.shades) /\ Distinct(palette.complementary)

\* the name of the tag that stands from position i to position e of s
TagName(s, i, e) ==
    IF s[i + 1] = "/" THEN SubSeq(s, i + 2, e - 1)
    ELSE SubSeq(s, i + 1, Least({k \in i..e : s[k] \in {" ", ">"}}) - 1)

\* the tags of s from position i on close in the reverse of the order they
\* opened in, `open` being the tags that are open at i, innermost first
RECURSIVE Nested(_, _, _)
Nested(s, i, open) ==
    LET starts == {j \in i..Len(s) : s[j] = "<"}
        from == Least(starts)
        ends == {k \in from..Len(s) : s[k] = ">"}
        to == Least(ends)
    IN  IF starts = {} THEN open = <<>>
        ELSE /\ ends # {}
             /\ IF s[from + 1] = "/"
                THEN /\ open # <<>>
                     /\ Head(open) = TagName(s, from, to)
                     /\ Nested(s, to + 1, Tail(open))
                ELSE Nested(s, to + 1, <<TagName(s, from, to)>> \o open)

\* no tag stands inside the address of a link of s
NoTagInHref(s) ==
    \A i \in 1..Len(s) :
        HasAt(s, i, LinkTagHead) =>
            LET from == i + Len(LinkTagHead)
                quotes == {k \in from..Len(s) : s[k] = "\""}
            IN  /\ quotes # {}
                /\ \A k \in from..Least(quotes) : s[k] \notin {"<", ">"}

\* C27: in the output of renderMarkdown every tag the renderer opens is
\* closed, the tags close innermost first, and no tag stands inside the href
\* attribute of a link.
C27_TagsNested ==
    pc = "rendered" => Nested(html, 1, <<>>) /\ NoTagInHref(html)

\* what line i of the input is: the fence that opens a code block, a line
\* inside one, the fence that closes one, or outside any code block a blank
\* line, a heading, a bullet or plain text
KindOf(i) ==
    IF InsideFence(i - 1) THEN (IF isFence(lines[i]) THEN "close" ELSE "inner")
    ELSE IF isFence(lines[i]) THEN "open"
    ELSE IF isBlank(lines[i]) THEN "blank"
    ELSE IF IsHeadingLine(i) THEN "heading"
    ELSE IF IsBulletLine(i) THEN "bullet"
    ELSE "text"

\* line i is the first line of a block: a heading, the first line of a run
\* of bullets or of plain lines, or an opening fence with a line to hold
StartsBlock(i) ==
    \/ KindOf(i) = "heading"
    \/ KindOf(i) \in {"bullet", "text"} /\ (i = 1 \/ KindOf(i - 1) # KindOf(i))
    \/ KindOf(i) = "open" /\ i < Len(lines) /\ KindOf(i + 1) = "inner"

\* the last line of the block that starts at line i
LastLineOf(i) ==
    LET with == IF KindOf(i) = "open" THEN "inner" ELSE KindOf(i)
        first == IF KindOf(i) = "open" THEN i + 1 ELSE i
    IN  CHOOSE j \in first..Len(lines) :
            /\ \A n \in first..j : KindOf(n) = with
            /\ j = Len(lines) \/ KindOf(j + 1) # with

\* the block that starts at line i
BlockAt(i) ==
    LET j == LastLineOf(i)
    IN  CASE KindOf(i) = "heading" -> HeadingOf(lines[i])
          [] KindOf(i) = "bullet" ->
                ListOf([n \in 1..(j - i + 1) |-> trim(listMatch(lines[i + n - 1]).text)])
          [] KindOf(i) = "text" ->
                ParagraphOf([n \in 1..(j - i + 1) |-> trim(lines[i + n - 1])])
          [] KindOf(i) = "open" -> CodeBlockOf(SubSeq(lines, i + 1, j))

\* the n-th smallest element of a set of numbers
Nth(S, n) == CHOOSE x \in S : Cardinality({y \in S : y < x}) = n - 1

\* the blocks of the input in the order of their first lines
BlocksInOrder ==
    LET starts == {i \in 1..Len(lines) : StartsBlock(i)}
    IN  [n \in 1..Cardinality(starts) |-> BlockAt(Nth(starts, n))]

\* C28: the blocks of the output stand in the order of their first lines in
\* the input, at the end of the input and across code fences too: a block is
\* only ever added after the blocks emitted before it, and the output is the
\* blocks of the input, in the order of their first lines, one after another.
C28_BlocksInInputOrder ==
    /\ [][pc = "forEach" =>
            /\ Len(htmlParts') >= Len(htmlParts)
            /\ SubSeq(htmlParts', 1, Len(htmlParts)) = htmlParts]_vars
    /\ [](pc = "rendered" =>
            /\ htmlParts = BlocksInOrder
            /\ html = join(BlocksInOrder, <<>>))

C28_Witness ==
    /\ pc = "rendered"
    /\ markdown = <<"-", " ", "o", "n", "e", "\n", Backtick, Backtick, Backtick, "\n", "#", " ", "T">>
    /\ htmlParts = <<<<"<", "u", "l", ">", "<", "l", "i", ">", "o", "n", "e", "<", "/", "l", "i", ">", "<", "/", "u", "l", ">">>, <<"<", "p", "r", "e", ">", "<", "c", "o", "d", "e", ">", "#", " ", "T", "<", "/", "c", "o", "d", "e", ">", "<", "/", "p", "r", "e", ">">>>>
    /\ html = <<"<", "u", "l", ">", "<", "l", "i", ">", "o", "n", "e", "<", "/", "l", "i", ">", "<", "/", "u", "l", ">", "<", "p", "r", "e", ">", "<", "c", "o", "d", "e", ">", "#", " ", "T", "<", "/", "c", "o", "d", "e", ">", "<", "/", "p", "r", "e", ">">>

----------------------------------------------------------------------------
(* Properties of the panels *)

\* the place of x in the sequence, 0 when it is not there
PlaceOf(seq, x) ==
    IF \E i \in 1..Len(seq) : seq[i] = x
    THEN CHOOSE i \in 1..Len(seq) : seq[i] = x
    ELSE 0

\* C29: starting from an empty stored history, after any Generate and Clear
\* operations the history holds at most 5 entries and none twice; Generate
\* puts the new UUID first and on display and leaves the others in their
\* order, the oldest dropping out of a full history, so that the history is
\* ordered most recently generated first; Clear empties the history and the
\* display, and the effect that follows leaves them empty.
C29_HistoryBounded ==
    /\ [](/\ Len(history) <= 5
          /\ Distinct(history)
          /\ pc = "uuidPanel" =>
                IF history = <<>> THEN current = NoString ELSE current = history[1])
    /\ [][pc = "uuidPanel" /\ pc' = "historyEffect" /\ current' # NoString =>
            /\ history'[1] = current'
            /\ \A x \in UuidMenu \ {current'} :
                  /\ PlaceOf(history', x) # 0 => PlaceOf(history, x) # 0
                  /\ PlaceOf(history, x) # 0 /\ PlaceOf(history', x) = 0 =>
                        Len(history') = 5 /\ \A y \in UuidMenu \ {current'} :
                            PlaceOf(history, y) <= PlaceOf(history, x)
                  /\ \A y \in UuidMenu \ {current'} :
                        PlaceOf(history', x) # 0 /\ PlaceOf(history', y) # 0 =>
                            (PlaceOf(history', x) < PlaceOf(history', y)
                                <=> PlaceOf(history, x) < PlaceOf(history, y))]_vars
    /\ [][pc = "uuidPanel" /\ pc' = "historyEffect" /\ current' = NoString =>
            history' = <<>>]_vars

C29_Witness ==
    /\ pc = "uuidPanel"
    /\ Len(history) = 5
    /\ history[1] = <<"u", "6">> /\ history[5] = <<"u", "2">>
    /\ current = <<"u", "6">>

\* the base colours of the favorites
BasesOf(list) == [i \in 1..Len(list) |-> list[i].base]

\* the entries of `part` are entries of `whole` and stand in the same order
KeepsOrder(part, whole) ==
    /\ \A i \in 1..Len(part) : PlaceOf(whole, part[i]) # 0
    /\ \A i, j \in 1..Len(part) :
          i < j => PlaceOf(whole, part[i]) < PlaceOf(whole, part[j])

\* C30: starting from no stored favorites, after any save, remove and
\* base-colour-change operations the list holds at most 6 favorites with
\* pairwise distinct base colours, newest first: a step that changes the list
\* either takes entries out and leaves the others in their order, or puts one
\* entry for the normalized base colour in front, a colour no favorite had,
\* and keeps the others in their order, the oldest leaving a list that held 6.
\* A save of a colour that is a favorite already changes nothing.
C30_FavoritesBounded ==
    /\ [](Len(favorites) <= 6 /\ Distinct(BasesOf(favorites)))
    /\ [][favorites' # favorites =>
            \/ /\ Len(favorites') < Len(favorites)
               /\ KeepsOrder(favorites', favorites)
            \/ /\ favorites'[1].base = normalizeHex(baseColor)
               /\ \A i \in 1..Len(favorites) : favorites[i].base # favorites'[1].base
               /\ Tail(favorites') =
                      IF Len(favorites) = 6 THEN SubSeq(favorites, 1, 5) ELSE favorites
               /\ UNCHANGED <<pc, baseColor, hexInput>>]_vars

C30_Witness ==
    /\ pc = "palettePanel"
    /\ BasesOf(favorites) =
          <<<<"#", "0", "0", "0", "0", "F", "F">>, <<"#", "0", "0", "F", "F", "0", "0">>, <<"#", "F", "F", "0", "0", "0", "0">>,
            <<"#", "8", "0", "5", "2", "F", "F">>, <<"#", "F", "F", "F", "F", "F", "F">>, <<"#", "0", "0", "0", "0", "0", "0">>>>
    /\ baseColor = <<"#", "0", "0", "0", "0", "F", "F">>
    /\ hexInput = <<"#", "0", "0", "0", "0", "F", "F">>

====
